---- MODULE Spec2Model ----
(***************************************************************************)
(* The obituary transcription pipeline: the batch orchestrator             *)
(* transcribe_images over a record store (ObituaryDatabase), and the text  *)
(* normalizer applied to OCR output.                                       *)
(***************************************************************************)
EXTENDS Integers, Sequences, FiniteSets, TLC

(* ------------------------------ bounds -------------------------------- *)

\* transcribe_images is called at most MaxRuns times in a behaviour.
MaxRuns == 2

\* store_transcription is called at most MaxDirect times in a behaviour.
MaxDirect == 1

(* --------------------------- files and paths --------------------------- *)

\* A path: its parent directory ("" is the working directory, "a" a directory
\* elsewhere, "a/b" a directory in it) and its name, a sequence of characters;
\* the suffix of a name is one character of it.
File(d, n) == [dir |-> d, name |-> n]

\* The name of the image with this stem.
jpg(stem) == stem \o <<".jpg">>

\* The files on disk, in the order directories list them: next to the
\* *.jpg images, a PNG and a JPEG image and a text file.
Disk ==
    <<File("", jpg(<<"x">>)), File("a", jpg(<<"x">>)), File("a", <<"z", ".png">>),
      File("a", <<"n", ".txt">>), File("a/b", jpg(<<"y">>)), File("a/b", <<"w", ".jpeg">>)>>

\* The directories at any depth under a directory, itself included.
Subdirs(d) == IF d = "a" THEN {"a", "a/b"} ELSE {d}

\* The *.jpg files on disk: one in the working directory, one in directory a,
\* one in a directory under it.
Files == {File("", jpg(<<"x">>)), File("a", jpg(<<"x">>)), File("a/b", jpg(<<"y">>))}

\* The images whose page carries no text: the OCR engine returns the empty
\* string for them.
BlankPages == {File("a/b", jpg(<<"y">>))}

\* The directories transcribe_images is given.
Dirs == {"", "a"}

\* Absence of the temporary file temp_processed.jpg.
NoFile == File("", <<>>)

\* What a directory entry matching *.jpg can be: a readable image, a name with
\* no regular file behind it (a dangling link, a directory), a zero-byte file,
\* a file that does not verify as an image.
Kinds == {"image", "dangling", "empty", "corrupt"}

\* list(Path(filepath).rglob("*.jpg")): the files at any depth under the
\* directory whose name ends in .jpg.
rglob(d) ==
    LET matches(file) == /\ file.dir \in Subdirs(d)
                         /\ file.name # <<>>
                         /\ file.name[Len(file.name)] = ".jpg"
    IN SelectSeq(Disk, matches)

\* str(file): the whole path, the key of the existence check.
str(file) == file

\* str(file.name): the final component alone, the image_path of a built record.
file_name(file) == File("", file.name)

\* The file name suffixes.
Suffixes == {".jpg", ".jpeg", ".png"}

\* Path(...).stem: the name without its suffix.
path_stem(file) ==
    IF file.name # <<>> /\ file.name[Len(file.name)] \in Suffixes
    THEN SubSeq(file.name, 1, Len(file.name) - 1)
    ELSE file.name

\* get_obituary_url(file): the archive URL of the stem.
get_obituary_url(file) == <<"display.jsp?name=", path_stem(file)>>

(* ---------------------------- preprocessing ---------------------------- *)

\* image_path.suffix.lower()
suffix_lower(suffix) ==
    CASE suffix = ".JPG" -> ".jpg" [] suffix = ".Png" -> ".png" [] OTHER -> suffix

\* A chain that looks at the size of the file before its suffix.
preprocess_image_size_first(kind, suffix) ==
    IF kind = "dangling" THEN [raised |-> "FileNotFoundError", msg |-> "File not found"]
    ELSE IF kind = "empty" THEN [raised |-> "ValueError", msg |-> "File is empty"]
    ELSE IF suffix_lower(suffix) \notin {".jpg", ".jpeg", ".png"}
         THEN [raised |-> "ValueError", msg |-> "Unsupported file type"]
    ELSE IF kind = "corrupt" THEN [raised |-> "ValueError", msg |-> "File is corrupted"]
    ELSE [raised |-> "", msg |-> ""]

\* preprocess_image: the validation chain and what each failure raises.
preprocess_image(kind, suffix) ==
    IF kind = "dangling" THEN [raised |-> "FileNotFoundError", msg |-> "File not found"]
    ELSE IF suffix_lower(suffix) \notin {".jpg", ".jpeg", ".png"}
         THEN [raised |-> "ValueError", msg |-> "Unsupported file type"]
    ELSE IF kind = "empty" THEN [raised |-> "ValueError", msg |-> "File is empty"]
    ELSE IF kind = "corrupt" THEN [raised |-> "ValueError", msg |-> "File is corrupted"]
    ELSE [raised |-> "", msg |-> ""]

\* config.SCALE_FACTOR
SCALE_FACTOR == 3

\* The suffixes of the paths preprocess_image is given.
GivenSuffixes == {".jpg", ".jpeg", ".png", ".JPG", ".Png", ".gif", ".txt", ""}

\* The image processing steps of preprocess_image, in the order of the calls.
ProcessingSteps ==
    <<"imread", "cvtColor", "scale_up_image", "denoise", "threshold", "dilate",
      "bitwise_not">>

\* scale_up_image(image): both dimensions times the scale factor; no other
\* step changes the shape.
scale_up_image(shape) ==
    [height |-> shape.height * SCALE_FACTOR, width |-> shape.width * SCALE_FACTOR]

\* The whole of preprocess_image on a file of this kind, suffix and shape:
\* the validation chain, then the processing steps on the decoded image.
preprocess(kind, suffix, shape) ==
    LET v == preprocess_image(kind, suffix) IN
    IF v.raised # ""
    THEN [called |-> TRUE, raised |-> v.raised, msg |-> v.msg, steps |-> <<>>,
          image |-> [none |-> TRUE]]
    ELSE [called |-> TRUE, raised |-> "", msg |-> "", steps |-> ProcessingSteps,
          image |-> [none |-> FALSE, value |-> scale_up_image(shape)]]

\* cv2.imwrite(temp_file, processed_img): writes the file, returns False
\* without writing, or raises cv2.error.
WriteOutcomes == {"written", "not_written", "cv2.error"}

(* ------------------------------ the text ------------------------------- *)

\* pytesseract.image_to_string(temp_img): the text of the opened image.
image_to_string(temp_img) == [of |-> temp_img, stages |-> <<"ocr">>]

\* clean_irregular_text, normalize_whitespace (normalize defaults to True) and,
\* with spellcheck, autocorrect_text, in the order of the calls.
text_stages(text, spell) ==
    [text EXCEPT !.stages =
        @ \o <<"clean", "normalize">> \o (IF spell THEN <<"autocorrect">> ELSE <<>>)]

(* -------------------------- text normalization ------------------------- *)
(* A text is a sequence of characters; a character is a string, the glyphs  *)
(* outside ASCII and the quotes being named: "SECTION", "BULLET", "ACUTE",   *)
(* "BACKTICK", "DQUOTE".                                                    *)

\* The longest text the normalizer is applied to.
MaxLen == 5

\* The longest name part of a stem from_image_path is applied to.
MaxName == 5

\* The most rows the store operations are followed to.
MaxRows == 2

\* The longest side, in pixels, of an image preprocess_image decodes.
MaxSide == 2

\* The threads that call SpellCheckerSingleton().
MaxThreads == 2

\* The calls of SpellCheckerSingleton() one thread makes.
MaxCalls == 2

\* [a-zA-Z]
Letters ==
    {"a", "b", "c", "d", "e", "f", "g", "h", "i", "j", "k", "l", "m",
     "n", "o", "p", "q", "r", "s", "t", "u", "v", "w", "x", "y", "z",
     "A", "B", "C", "D", "E", "F", "G", "H", "I", "J", "K", "L", "M",
     "N", "O", "P", "Q", "R", "S", "T", "U", "V", "W", "X", "Y", "Z"}

Digits == {"0", "1", "2", "3", "4", "5", "6", "7", "8", "9"}

\* \w
WordChars == Letters \cup Digits \cup {"_"}

\* \s and the characters str.strip() removes (the ASCII ones).
Whitespace == {" ", "\t", "\n", "\r", "\f"}

\* The line boundaries of str.splitlines() (the ASCII ones); \r\n is one.
LineBreaks == {"\n", "\r", "\f"}

Take(s, n) == SubSeq(s, 1, n)
Drop(s, n) == SubSeq(s, n + 1, Len(s))

\* The length of the longest prefix of s made of characters of class.
RECURSIVE RunIn(_, _)
RunIn(s, class) ==
    IF s = <<>> \/ Head(s) \notin class THEN 0 ELSE 1 + RunIn(Tail(s), class)

\* The length of the longest prefix of s with no character of class.
RECURSIVE RunOutside(_, _)
RunOutside(s, class) ==
    IF s = <<>> \/ Head(s) \in class THEN 0 ELSE 1 + RunOutside(Tail(s), class)

\* re.sub / str.replace of a literal: leftmost matches, not overlapping.
RECURSIVE sub_literal(_, _, _)
sub_literal(s, pat, rep) ==
    IF Len(s) < Len(pat) THEN s
    ELSE IF Take(s, Len(pat)) = pat
         THEN rep \o sub_literal(Drop(s, Len(pat)), pat, rep)
         ELSE <<Head(s)>> \o sub_literal(Tail(s), pat, rep)

\* re.sub of a character class by a character (by nothing when rep is <<>>).
RECURSIVE sub_class(_, _, _)
sub_class(s, class, rep) ==
    IF s = <<>> THEN <<>>
    ELSE (IF Head(s) \in class THEN rep ELSE <<Head(s)>>)
             \o sub_class(Tail(s), class, rep)

\* str.strip()
RECURSIVE rstrip(_)
rstrip(s) ==
    IF s = <<>> \/ s[Len(s)] \notin Whitespace THEN s ELSE rstrip(Take(s, Len(s) - 1))

strip(s) == rstrip(Drop(s, RunIn(s, Whitespace)))

\* text.split("\n")
RECURSIVE split_newline(_)
split_newline(s) ==
    LET n == RunOutside(s, {"\n"}) IN
    IF n = Len(s) THEN <<s>> ELSE <<Take(s, n)>> \o split_newline(Drop(s, n + 1))

\* text.splitlines(): no piece for the end of a text that ends with a boundary.
RECURSIVE splitlines(_)
splitlines(s) ==
    IF s = <<>> THEN <<>>
    ELSE LET n == RunOutside(s, LineBreaks) IN
         IF n = Len(s) THEN <<s>>
         ELSE LET brk == IF s[n + 1] = "\r" /\ n + 2 <= Len(s) /\ s[n + 2] = "\n"
                         THEN 2 ELSE 1
              IN <<Take(s, n)>> \o splitlines(Drop(s, n + brk))

\* "\n".join(lines)
RECURSIVE join_newline(_)
join_newline(lines) ==
    IF lines = <<>> THEN <<>>
    ELSE IF Len(lines) = 1 THEN lines[1]
    ELSE lines[1] \o <<"\n">> \o join_newline(Tail(lines))

\* text.replace("\r\n", "\n").replace("\r", "\n") and the two patterns of
\* TextNormalizer.normalize_line_endings.
normalize_line_endings(s) ==
    sub_literal(sub_literal(s, <<"\r", "\n">>, <<"\n">>), <<"\r">>, <<"\n">>)

\* "\n".join(line.strip() for line in text.split("\n"))
strip_lines(s) ==
    LET lines == split_newline(s) IN
    join_newline([i \in DOMAIN lines |-> strip(lines[i])])

\* re.sub(r"(\w+)-\s*\n\s*(\w+)", r"\1\2", s): the leftmost match begins at the
\* start of a run of word characters that is followed by a hyphen, a run of
\* whitespace holding a newline, and a word character; it takes the whole
\* second run, and the scan goes on behind it.
RECURSIVE fix_hyphenation(_)
fix_hyphenation(s) ==
    IF s = <<>> THEN <<>>
    ELSE LET w == RunIn(s, WordChars) IN
         IF w = 0 THEN <<Head(s)>> \o fix_hyphenation(Tail(s))
         ELSE LET r1 == Drop(s, w) IN
              IF r1 # <<>> /\ Head(r1) = "-"
              THEN LET r2 == Tail(r1)
                       g == RunIn(r2, Whitespace)
                       r3 == Drop(r2, g)
                       v == RunIn(r3, WordChars)
                   IN IF (\E i \in 1..g : r2[i] = "\n") /\ v > 0
                      THEN Take(s, w) \o Take(r3, v) \o fix_hyphenation(Drop(r3, v))
                      ELSE Take(s, w) \o fix_hyphenation(r1)
              ELSE Take(s, w) \o fix_hyphenation(r1)

\* A digit rule that looks at no neighbour: every D becomes L.
RECURSIVE fix_digit_anywhere(_, _, _)
fix_digit_anywhere(s, digit, letter) ==
    IF s = <<>> THEN <<>>
    ELSE <<IF Head(s) = digit THEN letter ELSE Head(s)>>
             \o fix_digit_anywhere(Tail(s), digit, letter)

\* re.sub(r"([a-zA-Z])D([a-zA-Z])", r"\1L\2", s) for a digit D and a letter L:
\* a match consumes both neighbours, the scan goes on behind the second.
RECURSIVE fix_digit(_, _, _)
fix_digit(s, digit, letter) ==
    IF Len(s) < 3 THEN s
    ELSE IF s[1] \in Letters /\ s[2] = digit /\ s[3] \in Letters
         THEN <<s[1], letter, s[3]>> \o fix_digit(Drop(s, 3), digit, letter)
         ELSE <<Head(s)>> \o fix_digit(Tail(s), digit, letter)

\* The four digit patterns, in the order of the dictionary: 4, 1, 0, 5.
ocr_corrections(s) ==
    fix_digit(fix_digit(fix_digit(fix_digit(s, "4", "a"), "1", "l"), "0", "o"), "5", "s")

\* '9o, '8o, '7o, '6o
year_fixes(s) ==
    sub_literal(sub_literal(sub_literal(sub_literal(s,
        <<"'", "9", "o">>, <<"'", "9", "0">>),
        <<"'", "8", "o">>, <<"'", "8", "0">>),
        <<"'", "7", "o">>, <<"'", "7", "0">>),
        <<"'", "6", "o">>, <<"'", "6", "0">>)

\* The section mark, the bar, the bullet, the tilde and the backtick are deleted.
character_removals(s) == sub_class(s, {"SECTION", "|", "BULLET", "~", "BACKTICK"}, <<>>)

\* The double quote, the backtick and the acute accent become an apostrophe.
quote_fixes(s) == sub_class(s, {"DQUOTE", "BACKTICK", "ACUTE"}, <<"'">>)

\* re.sub(r" +", " ", line)
RECURSIVE collapse_spaces(_)
collapse_spaces(s) ==
    IF s = <<>> THEN <<>>
    ELSE IF Head(s) = " "
         THEN <<" ">> \o collapse_spaces(Drop(s, RunIn(s, {" "})))
         ELSE <<Head(s)>> \o collapse_spaces(Tail(s))

\* normalize_whitespace of autocorrection.py: splitlines, strip every line,
\* collapse the spaces, unify the quotes, join.
normalize_whitespace(s) ==
    LET lines == splitlines(s) IN
    join_newline([i \in DOMAIN lines |-> quote_fixes(collapse_spaces(strip(lines[i])))])

\* TextNormalizer.normalize_whitespace: the same steps.
normalizer_normalize_whitespace(s) ==
    LET lines == splitlines(s) IN
    join_newline([i \in DOMAIN lines |-> quote_fixes(collapse_spaces(strip(lines[i])))])

\* TextNormalizer.fix_ocr_errors
fix_ocr_errors(s) == year_fixes(ocr_corrections(s))

\* TextNormalizer.clean_text (normalize_quotes defaults to True).
clean_text(s) ==
    IF s = <<>> THEN s
    ELSE quote_fixes(
           normalizer_normalize_whitespace(
             character_removals(
               fix_ocr_errors(
                 fix_hyphenation(
                   strip_lines(
                     normalize_line_endings(s)))))))

\* replace_text_with_dict: the patterns in the order of the dictionary; the
\* last one, r"\n(?!<PARAGRAPH>)", replaces a newline by a newline.
replace_text_with_dict(s) ==
    character_removals(year_fixes(ocr_corrections(fix_hyphenation(s))))

\* clean_irregular_text
clean_irregular_text(s) ==
    replace_text_with_dict(strip_lines(normalize_line_endings(s)))

\* The cleaning of transcribe_images: clean_irregular_text, then
\* normalize_whitespace.
transcriber_clean(s) == normalize_whitespace(clean_irregular_text(s))

\* The characters of the texts the normalizer is applied to.
TextChars == {"a", "1", "-", "\n", " ", "|"}

\* The texts of at most n characters.
Texts(n) == UNION {[1..k -> TextChars] : k \in 0..n}

(* --------------------------- spell correction -------------------------- *)

\* str.isupper() of a character.
Uppercase ==
    {"A", "B", "C", "D", "E", "F", "G", "H", "I", "J", "K", "L", "M",
     "N", "O", "P", "Q", "R", "S", "T", "U", "V", "W", "X", "Y", "Z"}

\* set('.,:;!?()[]{}""\'')
PUNCT_SET ==
    {".", ",", ":", ";", "!", "?", "(", ")", "[", "]", "{", "}", "DQUOTE", "'"}

\* text.split(): the maximal runs of characters that are not whitespace.
RECURSIVE split(_)
split(s) ==
    LET t == Drop(s, RunIn(s, Whitespace)) IN
    IF t = <<>> THEN <<>>
    ELSE LET n == RunOutside(t, Whitespace) IN <<Take(t, n)>> \o split(Drop(t, n))

\* " ".join(words)
RECURSIVE join_space(_)
join_space(words) ==
    IF words = <<>> THEN <<>>
    ELSE IF Len(words) = 1 THEN words[1]
    ELSE words[1] \o <<" ">> \o join_space(Tail(words))

\* The dictionaries: one with no suggestion for any word, one that knows every
\* word, one that knows the words of the letter a and has them as the
\* suggestion for a word with the letter x in it.
Lexicons == {"no_suggestion", "all_known", "x_misspelt"}

\* The lower case of a character.
lower(c) == IF c = "A" THEN "a" ELSE c

\* SpellChecker.correction(word): the word is lowered; the result is the most
\* likely known word, or None (the empty sequence here, falsy as None is).
spell_correction(word, lex) ==
    IF lex = "no_suggestion" THEN <<>>
    ELSE IF lex = "all_known" THEN [i \in DOMAIN word |-> lower(word[i])]
    ELSE [i \in DOMAIN word |-> IF lower(word[i]) = "x" THEN "a" ELSE lower(word[i])]

\* x or y
or(x, y) == IF x = <<>> THEN y ELSE x

\* end_idx + 1 of obit_reader.autocorrect_text: the length of the word without
\* its trailing run of punctuation.
RECURSIVE end_of_word(_)
end_of_word(word) ==
    IF word = <<>> \/ word[Len(word)] \notin PUNCT_SET THEN Len(word)
    ELSE end_of_word(Take(word, Len(word) - 1))

\* A loop body that looks every word up, capitalised or not.
correct_word_any_case(word, lex) ==
    LET e == end_of_word(word) IN
    IF e = 0 THEN word
    ELSE or(spell_correction(Take(word, e), lex), Take(word, e)) \o Drop(word, e)

\* A loop body that drops the punctuation of a corrected word.
correct_word_no_punctuation(word, lex) ==
    LET e == end_of_word(word) IN
    IF e = 0 THEN word
    ELSE IF word[1] \in Uppercase THEN word
    ELSE or(spell_correction(Take(word, e), lex), Take(word, e))

\* The loop body of obit_reader.autocorrect_text for one word.
correct_word(word, lex) ==
    IF word[Len(word)] \notin PUNCT_SET
    THEN IF word[1] \in Uppercase THEN word
         ELSE or(spell_correction(word, lex), word)
    ELSE LET e == end_of_word(word)
             actual_word == Take(word, e)
             punctuation == Drop(word, e)
         IN IF e = 0 THEN word
            ELSE IF actual_word[1] \in Uppercase THEN actual_word \o punctuation
            ELSE or(spell_correction(actual_word, lex), actual_word) \o punctuation

\* The words obit_reader.autocorrect_text passes to spell.correction.
looked_up(word) ==
    IF word[Len(word)] \notin PUNCT_SET
    THEN IF word[1] \in Uppercase THEN {} ELSE {word}
    ELSE LET e == end_of_word(word) IN
         IF e = 0 \/ word[1] \in Uppercase THEN {} ELSE {Take(word, e)}

\* autocorrect_text of obit_reader.py
autocorrect_text(s, lex) ==
    LET words == split(s) IN
    [raised |-> "",
     text |-> join_space([i \in DOMAIN words |-> correct_word(words[i], lex)]),
     lookups |-> UNION {looked_up(words[i]) : i \in DOMAIN words}]

\* autocorrect_text of src/autocorrection.py: the first word ends the call,
\* a capitalised one at result_append(word), another one at
\* corrected + punctuation after the lookup; neither name is bound.
autocorrection_autocorrect_text(s, lex) ==
    LET words == split(s) IN
    IF words = <<>> THEN [raised |-> "", text |-> <<>>, lookups |-> {}]
    ELSE [raised |-> "NameError", text |-> <<>>,
          lookups |-> IF words[1][1] \in Uppercase THEN {} ELSE {words[1]}]

\* The characters of the texts the corrector is applied to: a letter, a letter
\* of a misspelling, a capital, a punctuation mark, a space.
CorrectChars == {"a", "x", "A", ".", " "}

\* The texts of at most n of these characters.
CorrectTexts(n) == UNION {[1..k -> CorrectChars] : k \in 0..n}

(* ------------------------------- records ------------------------------- *)

\* A required parameter the call does not bind.
Unbound == File("<unbound>", <<>>)

\* Optional[...] with no value, and with one.
None == [none |-> TRUE]
Some(v) == [none |-> FALSE, value |-> v]

\* int(c) for a digit c.
digit_value(c) ==
    CASE c = "0" -> 0 [] c = "1" -> 1 [] c = "2" -> 2 [] c = "3" -> 3 [] c = "4" -> 4
      [] c = "5" -> 5 [] c = "6" -> 6 [] c = "7" -> 7 [] c = "8" -> 8 [] c = "9" -> 9

\* int(s) for a string of digits.
RECURSIVE int(_)
int(s) ==
    IF s = <<>> THEN 0
    ELSE 10 * int(SubSeq(s, 1, Len(s) - 1)) + digit_value(s[Len(s)])

\* The days of a month of the proleptic Gregorian calendar.
days_in_month(y, m) ==
    IF m = 2
    THEN (IF y % 4 = 0 /\ (y % 100 # 0 \/ y % 400 = 0) THEN 29 ELSE 28)
    ELSE IF m \in {4, 6, 9, 11} THEN 30 ELSE 31

\* date(year, month, day) inside try/except ValueError: the date, or None.
date(y, m, d) ==
    IF /\ 1 <= y /\ y <= 9999
       /\ 1 <= m /\ m <= 12
       /\ 1 <= d /\ d <= days_in_month(y, m)
    THEN Some([year |-> y, month |-> m, day |-> d])
    ELSE None

\* snake_case_name.split("_")
RECURSIVE split_underscore(_)
split_underscore(s) ==
    LET n == RunOutside(s, {"_"}) IN
    IF n = Len(s) THEN <<s>> ELSE <<Take(s, n)>> \o split_underscore(Drop(s, n + 1))

\* format_name(snake_case_name): (full name, first name, last name).
format_name(snake_case_name) ==
    IF snake_case_name = <<>>
    THEN [name |-> Some(<<>>), first_name |-> Some(<<>>), last_name |-> Some(<<>>)]
    ELSE LET name_parts == split_underscore(snake_case_name) IN
         IF Len(name_parts) < 2
         THEN [name |-> Some(snake_case_name), first_name |-> None, last_name |-> None]
         ELSE LET last_name == strip(name_parts[1])
                  first_and_middle == strip(join_space(Tail(name_parts)))
              IN [name |-> Some(last_name \o <<",", " ">> \o first_and_middle),
                  first_name |-> Some(first_and_middle),
                  last_name |-> Some(last_name)]

\* re.match(r"(\d{4})(\d{2})(\d{2})_(.*)", filename): eight digits, an
\* underscore, and the rest of the line.
stem_match(filename) ==
    IF /\ Len(filename) >= 9
       /\ \A i \in 1..8 : filename[i] \in Digits
       /\ filename[9] = "_"
    THEN LET rest == Drop(filename, 9) IN
         [matched |-> TRUE,
          year |-> Take(filename, 4),
          month |-> SubSeq(filename, 5, 6),
          day |-> SubSeq(filename, 7, 8),
          name |-> Take(rest, RunOutside(rest, {"\n"}))]
    ELSE [matched |-> FALSE, year |-> <<>>, month |-> <<>>, day |-> <<>>, name |-> <<>>]

\* A body that takes the first token as the first name and the rest as the last.
metadata_names_swapped(filename) ==
    LET m == stem_match(filename)
        n == format_name(m.name)
    IN [year |-> IF m.matched THEN Some(m.year) ELSE None,
        month |-> IF m.matched THEN Some(m.month) ELSE None,
        day |-> IF m.matched THEN Some(m.day) ELSE None,
        date_published |-> IF m.matched
                           THEN date(int(m.year), int(m.month), int(m.day)) ELSE None,
        name |-> IF m.matched THEN n.name ELSE None,
        last_name |-> IF m.matched THEN n.first_name ELSE None,
        first_name |-> IF m.matched THEN n.last_name ELSE None]

\* A body that builds the date of a day past the end of its month as the last
\* day of the month.
metadata_clamps_day(filename) ==
    LET m == stem_match(filename)
        n == format_name(m.name)
        y == int(m.year)
        mo == int(m.month)
        d == int(m.day)
    IN [year |-> IF m.matched THEN Some(m.year) ELSE None,
        month |-> IF m.matched THEN Some(m.month) ELSE None,
        day |-> IF m.matched THEN Some(m.day) ELSE None,
        date_published |-> IF m.matched
                           THEN date(y, mo, IF 1 <= mo /\ mo <= 12 /\ d > days_in_month(y, mo)
                                            THEN days_in_month(y, mo) ELSE d)
                           ELSE None,
        name |-> IF m.matched THEN n.name ELSE None,
        last_name |-> IF m.matched THEN n.last_name ELSE None,
        first_name |-> IF m.matched THEN n.first_name ELSE None]

\* The fields from_image_path derives from the stem: all None unless the
\* pattern matches.
metadata(filename) ==
    LET m == stem_match(filename) IN
    IF m.matched
    THEN LET n == format_name(m.name) IN
         [year |-> Some(m.year), month |-> Some(m.month), day |-> Some(m.day),
          date_published |-> date(int(m.year), int(m.month), int(m.day)),
          name |-> n.name, last_name |-> n.last_name, first_name |-> n.first_name]
    ELSE [year |-> None, month |-> None, day |-> None, date_published |-> None,
          name |-> None, last_name |-> None, first_name |-> None]

\* ObituaryRecord.from_image_path(image_path, text_content, raw_image,
\* obituary_url): raw_image has no default, so a call that does not bind it
\* raises TypeError before the body runs; the thumbnail is made from raw_image.
from_image_path(image_path, text_content, raw_image, obituary_url) ==
    IF raw_image = Unbound
    THEN [raised |-> "TypeError", record |-> None]
    ELSE LET d == metadata(path_stem(image_path)) IN
         [raised |-> "",
          record |-> [image_path |-> image_path,
                      text_content |-> text_content,
                      obituary_url |-> obituary_url,
                      year |-> d.year,
                      month |-> d.month,
                      day |-> d.day,
                      date_published |-> d.date_published,
                      name |-> d.name,
                      last_name |-> d.last_name,
                      first_name |-> d.first_name,
                      image |-> raw_image]]

\* The record transcribe_images builds for a transcribed file, had the call bound
\* raw_image to the opened temporary image.
build_record_with_image(file, text, temp_img) ==
    from_image_path(file_name(file), text, temp_img, get_obituary_url(file))

\* The call of transcribe_images: image_path, text_content and obituary_url are
\* passed by keyword, raw_image is not passed.
build_record(file, text, temp_img) ==
    from_image_path(file_name(file), text, Unbound, get_obituary_url(file))

(* ------------------------------ the store ------------------------------ *)

\* Whether the SELECT ... WHERE image_path = ? has a row.
has_record(rows, image_path) ==
    \E i \in DOMAIN rows : rows[i].image_path = image_path

\* get_record_by_image_path: fetchone() of the matching rows, or None.
get_record_by_image_path(rows, image_path) ==
    IF has_record(rows, image_path)
    THEN rows[CHOOSE i \in DOMAIN rows :
                 /\ rows[i].image_path = image_path
                 /\ \A j \in DOMAIN rows : rows[j].image_path = image_path => i <= j]
    ELSE None

\* ObituaryRecord(image_path=..., text_content=...): every other field at its
\* default, None.
ObituaryRecord(image_path, text_content) ==
    [image_path |-> image_path, text_content |-> text_content,
     obituary_url |-> None, year |-> None, month |-> None, day |-> None,
     date_published |-> None, name |-> None, last_name |-> None,
     first_name |-> None, image |-> None]

\* The character of a digit.
digit_char(n) == CHOOSE c \in Digits : digit_value(c) = n

\* "%0*d" % (width, n)
RECURSIVE zero_padded(_, _)
zero_padded(n, width) ==
    IF width = 0 THEN <<>>
    ELSE zero_padded(n \div 10, width - 1) \o <<digit_char(n % 10)>>

\* sqlite3's adapter of datetime.date, val.isoformat(): YYYY-MM-DD.
adapt_date(val) ==
    zero_padded(val.year, 4) \o <<"-">> \o zero_padded(val.month, 2)
        \o <<"-">> \o zero_padded(val.day, 2)

\* val.split("-")
RECURSIVE split_hyphen(_)
split_hyphen(s) ==
    LET n == RunOutside(s, {"-"}) IN
    IF n = Len(s) THEN <<s>> ELSE <<Take(s, n)>> \o split_hyphen(Drop(s, n + 1))

\* A converter that reads the text as DD-MM-YYYY.
convert_date_day_first(val) ==
    LET parts == split_hyphen(val) IN
    date(int(parts[3]), int(parts[2]), int(parts[1]))

\* sqlite3's converter of a column declared DATE, what PARSE_DECLTYPES applies:
\* datetime.date(*map(int, val.split(b"-"))).
convert_date(val) ==
    LET parts == split_hyphen(val) IN
    date(int(parts[1]), int(parts[2]), int(parts[3]))

\* The parameters of the INSERT as sqlite3 binds them: a date by its adapter,
\* None as NULL, text and bytes as they are.
bind(record) ==
    [record EXCEPT !.date_published =
        IF record.date_published = None THEN None
        ELSE Some(adapt_date(record.date_published.value))]

\* A row as the connection returns it: the column declared DATE through its
\* converter, NULL as None, the other columns as they are stored.
fetch(row) ==
    [row EXCEPT !.date_published =
        IF row.date_published = None THEN None
        ELSE convert_date(row.date_published.value)]

\* add_record: INSERT and commit; the table has no uniqueness constraint on
\* image_path; column image is declared NOT NULL (as image_path and
\* text_content, which every record has). A database error leaves the table as
\* it was. A row of the table is kept as the connection returns it.
add_record(rows, record, dberror) ==
    IF dberror THEN [raised |-> "sqlite3.Error", rows |-> rows]
    ELSE IF record.image = None
         THEN [raised |-> "sqlite3.IntegrityError", rows |-> rows]
    ELSE [raised |-> "", rows |-> Append(rows, fetch(bind(record)))]

\* get_all_records: every row, in the order of the table.
get_all_records(rows) == rows

\* A statement with no WHERE clause: every row gets the URL.
update_url_every_row(rows, image_path, url) ==
    [rows |-> [i \in DOMAIN rows |-> [rows[i] EXCEPT !.obituary_url = url]],
     returned |-> rows # <<>>]

\* update_url: UPDATE obituaries SET obituary_url = ? WHERE image_path = ?;
\* returns cursor.rowcount > 0.
update_url(rows, image_path, url) ==
    [rows |-> [i \in DOMAIN rows |->
                  IF rows[i].image_path = image_path
                  THEN [rows[i] EXCEPT !.obituary_url = url]
                  ELSE rows[i]],
     returned |-> has_record(rows, image_path)]

\* populate_date_published: every row with year, month and day and no date
\* gets the date they make, if they make one.
populate_date_published(rows) ==
    [i \in DOMAIN rows |->
        LET r == rows[i] IN
        IF r.date_published = None /\ r.year # None /\ r.month # None /\ r.day # None
        THEN LET date_obj == date(int(r.year.value), int(r.month.value), int(r.day.value))
             IN IF date_obj # None THEN [r EXCEPT !.date_published = date_obj] ELSE r
        ELSE r]

\* The stems of the images whose records are stored: a valid date, a day
\* past the end of its month, a leap day, a name alone.
StoreStems ==
    {<<"1", "9", "9", "1", "0", "1", "1", "0", "_", "A", "_", "R">>,
     <<"1", "9", "9", "1", "0", "2", "3", "1", "_", "A", "_", "R">>,
     <<"2", "0", "0", "0", "0", "2", "2", "9", "_", "A">>,
     <<"x">>}

\* The URLs update_url is given.
Urls == {<<"http://u1">>, <<"http://u2">>}

\* The dates a stem begins with: valid, a day past the end of the month, a
\* leap day, the 29th of February of a year that has none, a month past 12,
\* the year 0.
Dates ==
    {<<"1", "9", "9", "1", "0", "1", "1", "0">>,
     <<"1", "9", "9", "1", "0", "2", "3", "1">>,
     <<"2", "0", "0", "0", "0", "2", "2", "9">>,
     <<"1", "9", "0", "0", "0", "2", "2", "9">>,
     <<"1", "9", "9", "1", "1", "3", "0", "1">>,
     <<"0", "0", "0", "0", "0", "1", "0", "1">>}

\* The characters of the name part of a stem.
NameChars == {"A", "R", "_", " "}

\* The name parts of at most n characters.
Names(n) == UNION {[1..k -> NameChars] : k \in 0..n}

\* The stems from_image_path is applied to: a date, an underscore and a name
\* part; a name part alone; a date and a name part with no underscore between.
RecordStems(n) ==
    {d \o <<"_">> \o nm : d \in Dates, nm \in Names(n)}
        \cup Names(n)
        \cup {d \o nm : d \in Dates, nm \in Names(n)}

(* -------------------------- the orchestrator --------------------------- *)

\* The existence branch with the append left out.
skip_without_append(processed, existing) == processed

\* The existence branch: processed_records.append(existing_record).
skip_records(processed, existing) == Append(processed, existing)

\* A handler that returns a record with empty text for the failed file.
on_error_empty_record(processed, file) ==
    Append(processed, [image_path |-> file_name(file),
                       text_content |-> [of |-> NoFile, stages |-> <<>>],
                       obituary_url |-> get_obituary_url(file),
                       image |-> NoFile])

\* The except handlers: log and continue; processed_records is not touched.
on_error_records(processed, file) == processed

\* A tail that commits the row and then fails.
persist_commit_then_raise(rows, processed, file, text, temp_img, dberror) ==
    [rows |-> Append(rows, build_record_with_image(file, text, temp_img).record),
     processed |-> processed, raised |-> "Error", add_calls |-> 1]

\* The tail of the second try block, from the record construction on:
\* from_image_path, add_record, processed_records.append, and the handler of
\* whatever they raise.
persist(rows, processed, file, text, temp_img, dberror) ==
    LET b == build_record(file, text, temp_img) IN
    IF b.raised # ""
    THEN [rows |-> rows, processed |-> on_error_records(processed, file),
          raised |-> b.raised, add_calls |-> 0]
    ELSE LET a == add_record(rows, b.record, dberror) IN
         IF a.raised # ""
         THEN [rows |-> a.rows, processed |-> on_error_records(processed, file),
               raised |-> a.raised, add_calls |-> 1]
         ELSE [rows |-> a.rows, processed |-> Append(processed, b.record),
               raised |-> "", add_calls |-> 1]

\* What Image.open(temp_file) does: returns the image, or raises
\* UnidentifiedImageError, or another error (no such file).
OpenOutcomes == {"opened", "UnidentifiedImageError", "OSError"}

\* A call made by the loop body: the function and, for a text stage, the
\* stages the text it is given has been through.
Call(f, on) == [call |-> f, on |-> on]

\* A body that corrects the spelling before it normalizes the whitespace.
text_calls_correct_first(spell, normalize) ==
    <<"clean_irregular_text">>
        \o (IF spell THEN <<"autocorrect_text">> ELSE <<>>)
        \o (IF normalize THEN <<"normalize_whitespace">> ELSE <<>>)

\* The text stages of the loop body, in the order of the calls:
\* clean_irregular_text, normalize_whitespace if normalize, autocorrect_text
\* if spellcheck.
text_calls(spell, normalize) ==
    <<"clean_irregular_text">>
        \o (IF normalize THEN <<"normalize_whitespace">> ELSE <<>>)
        \o (IF spell THEN <<"autocorrect_text">> ELSE <<>>)

\* The stage a text function adds to the text it returns.
stage_of(f) ==
    CASE f = "clean_irregular_text" -> "clean"
      [] f = "normalize_whitespace" -> "normalize"
      [] f = "autocorrect_text" -> "autocorrect"

\* The calls of the text functions fns on a text that has been through stages
\* on, up to the call that raises: autocorrect_text when correct_ok is false.
RECURSIVE run_text_calls(_, _, _)
run_text_calls(fns, on, correct_ok) ==
    IF fns = <<>> THEN [calls |-> <<>>, raised |-> FALSE]
    ELSE IF Head(fns) = "autocorrect_text" /\ ~correct_ok
         THEN [calls |-> <<Call(Head(fns), on)>>, raised |-> TRUE]
    ELSE LET rest == run_text_calls(Tail(fns), Append(on, stage_of(Head(fns))), correct_ok)
         IN [calls |-> <<Call(Head(fns), on)>> \o rest.calls, raised |-> rest.raised]

\* One iteration of the loop of transcribe_images for a file: the calls it
\* makes, in order, and how the file ends.
loop_body(in) ==
    LET file == File("", jpg(<<"x">>))
        c0 == <<Call("get_record_by_image_path", <<>>)>>
        c1 == Append(c0, Call("preprocess_image", <<>>))
        c2 == Append(c1, Call("cv2.imwrite", <<>>))
        c3 == Append(c2, Call("Image.open", <<>>))
        c4 == Append(c3, Call("image_to_string", <<>>))
        v == preprocess_image(in.kind, ".jpg")
        t == run_text_calls(text_calls(in.spellcheck, in.normalize), <<"ocr">>, in.correct_ok)
        c5 == c4 \o t.calls \o <<Call("get_obituary_url", <<>>), Call("from_image_path", <<>>)>>
        r == persist(<<>>, <<>>, file, text_stages(image_to_string(file), in.spellcheck),
                     file, in.dberror)
    IN IF in.existing THEN [called |-> TRUE, calls |-> c0, outcome |-> "skipped"]
       ELSE IF v.raised = "ValueError"
            THEN [called |-> TRUE, calls |-> c1, outcome |-> "preprocess_failed"]
       ELSE IF v.raised # "" THEN [called |-> TRUE, calls |-> c1, outcome |-> "raised"]
       ELSE IF in.write = "cv2.error" THEN [called |-> TRUE, calls |-> c2, outcome |-> "raised"]
       ELSE IF in.open # "opened"
            THEN [called |-> TRUE, calls |-> c3, outcome |-> "pipeline_failed"]
       ELSE IF ~in.ocr_ok THEN [called |-> TRUE, calls |-> c4, outcome |-> "pipeline_failed"]
       ELSE IF t.raised
            THEN [called |-> TRUE, calls |-> c4 \o t.calls, outcome |-> "pipeline_failed"]
       ELSE [called |-> TRUE,
             calls |-> c5 \o (IF r.add_calls = 1 THEN <<Call("add_record", <<>>)>> ELSE <<>>),
             outcome |-> IF r.raised # "" THEN "persist_failed" ELSE "persisted"]

(* ----------------------------- the downloader --------------------------- *)

\* The obituary links given to download_obituary_image: a name with a date, one
\* followed by another parameter, one with an escaped space, a name of four
\* characters, a name of one, a link with no name parameter, an empty name.
Links ==
    {<<"display.jsp?name=", "1", "9", "9", "1", "0", "1", "1", "0", "_", "A">>,
     <<"display.jsp?name=", "1", "9", "9", "1", "0", "1", "1", "0", "_", "A", "&", "p">>,
     <<"display.jsp?name=", "1", "9", "9", "1", "0", "1", "1", "0", "%20", "A">>,
     <<"display.jsp?name=", "1", "9", "9", "1">>,
     <<"display.jsp?name=", "x">>,
     <<"index.jsp">>,
     <<"display.jsp?name=">>}

\* What the server answers to the GET of an image URL.
Responses == {"content", "HTTPError", "ConnectionError"}

\* What open(actual_file_path, "wb") and the write do.
FileWrites == {"written", "OSError"}

\* The indices of the images of one obituary.
Indices == {0, 1, 2}

\* urllib.parse.unquote (of the escapes the links have).
unquote(s) == [i \in DOMAIN s |-> IF s[i] = "%20" THEN " " ELSE s[i]]

\* re.search(r"display\.jsp\?name=([^&]+)", obituary_url): the places where the
\* pattern matches.
name_matches(obituary_url) ==
    {i \in DOMAIN obituary_url :
        /\ obituary_url[i] = "display.jsp?name="
        /\ i < Len(obituary_url)
        /\ obituary_url[i + 1] # "&"}

\* extract_filename_from_url: group 1 of the leftmost match, unquoted, or None.
extract_filename_from_url(obituary_url) ==
    IF name_matches(obituary_url) = {} THEN None
    ELSE LET i == CHOOSE m \in name_matches(obituary_url) :
                      \A n \in name_matches(obituary_url) : m <= n
             rest == Drop(obituary_url, i)
         IN Some(unquote(Take(rest, RunOutside(rest, {"&"}))))

\* extract_date_components(name_param)
extract_date_components(name_param) ==
    LET date_str == Take(name_param, 8) IN
    [date_str |-> date_str, year |-> Take(date_str, 4),
     month |-> SubSeq(date_str, 5, 6), day |-> SubSeq(date_str, 7, 8)]

\* transform_url_to_image_path(display_url, index): the image URL, or None when
\* there is no name or it has fewer than 8 characters. The URLs given all have
\* the base http://host/olo before the link.
transform_url_to_image_path(display_url, index) ==
    LET name_param == extract_filename_from_url(display_url) IN
    IF name_param = None THEN None
    ELSE IF Len(name_param.value) < 8 THEN None
    ELSE LET c == extract_date_components(name_param.value) IN
         Some(<<Head(display_url), "imagedb">> \o c.year \o <<"/">> \o c.month
                  \o <<"/">> \o c.day \o <<"/">> \o name_param.value \o <<"/m">>
                  \o c.date_str \o <<"_", digit_char(index), ".jpg">>)

\* download_image(image_url, client): None for a URL that does not start with
\* http; the content of the response; a RequestException of the GET or of
\* raise_for_status is logged and raised again.
download_image(image_url, response) ==
    IF Head(image_url) # "http://obit.glbthistory.org/olo/"
    THEN [raised |-> "", contents |-> None]
    ELSE IF response = "content"
         THEN [raised |-> "", contents |-> Some(image_url)]
    ELSE [raised |-> "requests.RequestException", contents |-> None]

\* prepare_file_path(filename): in the directory of the year, which is made,
\* when the name has four characters; in the data directory otherwise.
prepare_file_path(filename, mkdir_ok) ==
    IF Len(filename) >= 4
    THEN IF mkdir_ok
         THEN [raised |-> "", path |-> [dir |-> Take(filename, 4), stem |-> filename,
                                       suffix |-> ".jpg"]]
         ELSE [raised |-> "OSError", path |-> None]
    ELSE [raised |-> "", path |-> [dir |-> <<>>, stem |-> filename, suffix |-> ".jpg"]]

\* file_path.with_stem(f"{file_path.stem}_{index}") for an index above 0.
actual_file_path(file_path, index) ==
    IF index > 0
    THEN [file_path EXCEPT !.stem = @ \o <<"_", digit_char(index)>>]
    ELSE file_path

\* download_single_image(href, index, file_path, client): False when there is
\* no image URL, no content, or a RequestException; the content written to the
\* file and True otherwise; an error of the write is not caught.
download_single_image(href, index, file_path, response, file_write) ==
    LET image_url == transform_url_to_image_path(href, index) IN
    IF image_url = None
    THEN [returned |-> FALSE, raised |-> "", requested |-> FALSE, written |-> {}]
    ELSE LET d == download_image(image_url.value, response) IN
         IF d.raised # "" \/ d.contents = None
         THEN [returned |-> FALSE, raised |-> "", requested |-> TRUE, written |-> {}]
         ELSE IF file_write = "OSError"
              THEN [returned |-> FALSE, raised |-> "OSError", requested |-> TRUE,
                    written |-> {}]
         ELSE [returned |-> TRUE, raised |-> "", requested |-> TRUE,
               written |-> {[path |-> actual_file_path(file_path, index),
                             contents |-> d.contents.value]}]

\* One call of download_single_image, as the caller sees it.
Attempt(index, r) ==
    [index |-> index, requested |-> r.requested,
     outcome |-> IF r.raised # "" THEN r.raised
                 ELSE IF r.returned THEN "True" ELSE "False"]

\* A loop that stops at the first index that downloads.
RECURSIVE try_indices_until_success(_, _, _, _, _)
try_indices_until_success(indices, href, file_path, responses, file_writes) ==
    IF indices = <<>>
    THEN [success_count |-> 0, raised |-> "", attempts |-> <<>>, written |-> {}]
    ELSE LET index == Head(indices)
             r == download_single_image(href, index, file_path, responses[index],
                                        file_writes[index])
         IN IF r.raised # ""
            THEN [success_count |-> 0, raised |-> r.raised,
                  attempts |-> <<Attempt(index, r)>>, written |-> r.written]
            ELSE IF r.returned
            THEN [success_count |-> 1, raised |-> "",
                  attempts |-> <<Attempt(index, r)>>, written |-> r.written]
            ELSE LET rest == try_indices_until_success(Tail(indices), href, file_path,
                                                       responses, file_writes)
                 IN [rest EXCEPT !.attempts = <<Attempt(index, r)>> \o @]

\* for index in indices: if download_single_image(...): success_count += 1.
\* An exception of a call ends the loop.
RECURSIVE try_indices(_, _, _, _, _)
try_indices(indices, href, file_path, responses, file_writes) ==
    IF indices = <<>>
    THEN [success_count |-> 0, raised |-> "", attempts |-> <<>>, written |-> {}]
    ELSE LET index == Head(indices)
             r == download_single_image(href, index, file_path, responses[index],
                                        file_writes[index])
         IN IF r.raised # ""
            THEN [success_count |-> 0, raised |-> r.raised,
                  attempts |-> <<Attempt(index, r)>>, written |-> r.written]
            ELSE LET rest == try_indices(Tail(indices), href, file_path, responses,
                                         file_writes)
                 IN [rest EXCEPT !.success_count = @ + (IF r.returned THEN 1 ELSE 0),
                                 !.attempts = <<Attempt(index, r)>> \o @,
                                 !.written = @ \cup r.written]

\* try_alternative_indices(href, file_path, client): indices 1 and 2.
try_alternative_indices(href, file_path, responses, file_writes) ==
    try_indices(<<1, 2>>, href, file_path, responses, file_writes)

\* download_obituary_image(obituary_link, client): every exception is logged
\* and raised again.
download_obituary_image(obituary_link, responses, file_writes, mkdir_ok) ==
    LET href == <<"http://obit.glbthistory.org/olo/">> \o obituary_link
        filename == extract_filename_from_url(href)
    IN IF filename = None
       THEN [called |-> TRUE, raised |-> "ValueError",
             message |-> "Failed to extract filename from URL",
             attempts |-> <<>>, written |-> {}]
       ELSE LET file_path == prepare_file_path(filename.value, mkdir_ok) IN
            IF file_path.raised # ""
            THEN [called |-> TRUE, raised |-> file_path.raised, message |-> "",
                  attempts |-> <<>>, written |-> {}]
            ELSE LET first == download_single_image(href, 0, file_path.path,
                                                    responses[0], file_writes[0])
                 IN IF first.raised # ""
                    THEN [called |-> TRUE, raised |-> first.raised, message |-> "",
                          attempts |-> <<Attempt(0, first)>>, written |-> first.written]
                    ELSE IF first.returned
                    THEN [called |-> TRUE, raised |-> "", message |-> "",
                          attempts |-> <<Attempt(0, first)>>, written |-> first.written]
                    ELSE LET alt == try_alternative_indices(href, file_path.path,
                                                            responses, file_writes)
                         IN [called |-> TRUE,
                             raised |-> IF alt.raised # "" THEN alt.raised
                                        ELSE IF alt.success_count = 0 THEN "ValueError"
                                        ELSE "",
                             message |-> IF alt.raised = "" /\ alt.success_count = 0
                                         THEN "Failed to download obituary image with any index"
                                         ELSE "",
                             attempts |-> <<Attempt(0, first)>> \o alt.attempts,
                             written |-> alt.written]

(* ----------------------- the spell checker singleton ------------------- *)

\* A __call__ whose with statement takes no lock.
lock_free_never_held(holder) == TRUE

\* with cls._lock: the lock can be taken when no thread holds it.
lock_free(holder) == holder = 0

\* SpellCheckerSingleton._custom_word_file
DefaultWordFile == "valid_words.txt"

\* The custom_word_file arguments of the callers; "" is None.
WordFiles == {"", "words_a.txt", "words_b.txt"}

\* No instance: the class is not in _instances, a thread has made none.
NoInstance == [id |-> 0, custom_word_file |-> "", loaded |-> FALSE]

\* SpellCheckerSingleton.__init__(custom_word_file): the n-th instance, with the
\* word file given or else the default, and a SpellChecker whose dictionary
\* has the words of the file when the file loads.
init(n, custom_word_file, loads) ==
    [id |-> n,
     custom_word_file |-> IF custom_word_file # "" THEN custom_word_file
                          ELSE DefaultWordFile,
     loaded |-> loads]

VARIABLES
    fs,                 \* the kind of every file on disk
    store,              \* the rows of table obituaries, in insertion order
    temp_file,          \* whose processed pixels temp_processed.jpg holds
    pc,                 \* "idle", "loop", "try2", "raised"
    filepath,           \* the directory of the current run
    spellcheck,         \* the flag of the current run
    directory,          \* the files the loop has still to visit
    processed_records,  \* the result list of the current run
    log,                \* the files named by an error log entry of this run
    opened, closed,     \* connections opened / closed by the current run
    runs, direct,       \* calls of transcribe_images / store_transcription so far
    calls,              \* what the current run has called
    outcome,            \* how each file of the current run ended
    store0,             \* the store when the current run began
    prev,               \* the previous run, as it ended
    dirty,              \* whether the store was written since that run ended
    cleaner,            \* which cleaning is applied to text_in
    text_in,            \* a raw OCR text
    text_out,           \* the results of cleaning it once, twice
    lexicon,            \* the dictionary of the spell checker
    corrected,          \* what autocorrect_text gave for text_in, once called
    stem_in,            \* the stem from_image_path is applied to
    built,              \* the record it built, once called
    last,               \* the last operation on the store and what it returned
    image_file,         \* the file preprocess_image is given
    processed_img,      \* what preprocess_image did with it, once called
    iteration,          \* the file and flags of one iteration of the loop
    iterated,           \* the calls that iteration made, once run
    lock,               \* the thread that holds SingletonMeta._lock, or 0
    instances,          \* SingletonMeta._instances[SpellCheckerSingleton]
    constructed,        \* the instances made so far
    thread,             \* each thread: where it is in __call__, its argument,
                        \* the instance it made, the instance it was returned
    download,           \* the link, the server and the disk of one download
    downloaded          \* what download_obituary_image did, once called

vars == <<fs, store, temp_file, pc, filepath, spellcheck, directory,
          processed_records, log, opened, closed, runs, direct, calls,
          outcome, store0, prev, dirty, cleaner, text_in, text_out, lexicon,
          corrected, stem_in, built, last, image_file, processed_img, iteration,
          iterated, lock, instances, constructed, thread, download,
          downloaded>>

\* The variables of the preprocessing alone.
pvars == <<image_file, processed_img>>

\* The variables of one iteration of the loop.
ivars == <<iteration, iterated>>

\* The variables of the singleton.
svars == <<lock, instances, constructed, thread>>

\* The variables of the downloader.
dvars == <<download, downloaded>>

\* The variables of the operations followed on their own.
evars == <<pvars, ivars, svars, dvars>>

\* The variables of the text normalization.
tvars == <<cleaner, text_in, text_out>>

\* The variables of the spell correction.
cvars == <<lexicon, corrected>>

\* The variables of the record construction and of the store operations.
rvars == <<stem_in, built, last>>

\* No store operation yet.
NoCall == [op |-> "", image_path |-> NoFile, url |-> <<>>, returned |-> FALSE,
           raised |-> "", before |-> <<>>, image |-> None, record |-> None]

\* No call of autocorrect_text yet.
NotCorrected == [called |-> FALSE, raised |-> "", text |-> <<>>, lookups |-> {}]

\* The variables of the orchestrator and the store.
ovars == <<fs, store, temp_file, pc, filepath, spellcheck, directory,
           processed_records, log, opened, closed, runs, direct, calls,
           outcome, store0, prev, dirty>>

NoCalls == [preprocess |-> {}, ocr |-> {}, add |-> 0]
NoOutcome == [f \in Files |-> ""]

Running == pc \in {"loop", "try2"}

\* No record built, no store operation called.
InitRecords ==
    /\ stem_in = <<>>
    /\ built = None
    /\ last = NoCall

\* No file given to preprocess_image.
NoImage == [kind |-> "image", suffix |-> ".jpg", shape |-> [height |-> 1, width |-> 1]]

\* No call of preprocess_image yet.
NotPreprocessed ==
    [called |-> FALSE, raised |-> "", msg |-> "", steps |-> <<>>, image |-> [none |-> TRUE]]

\* No iteration followed on its own.
NoIteration ==
    [existing |-> FALSE, kind |-> "image", spellcheck |-> FALSE, normalize |-> TRUE,
     write |-> "written", open |-> "opened", ocr_ok |-> TRUE, correct_ok |-> TRUE,
     dberror |-> FALSE]

\* The iteration has not run.
NotIterated == [called |-> FALSE, calls |-> <<>>, outcome |-> ""]

\* preprocess_image is not followed on its own.
InitNoPreprocess ==
    /\ image_file = NoImage
    /\ processed_img = NotPreprocessed

\* No iteration is followed on its own.
InitNoIteration ==
    /\ iteration = NoIteration
    /\ iterated = NotIterated

\* The threads.
Threads == 1..MaxThreads

\* No thread has called SpellCheckerSingleton().
InitSingleton ==
    /\ lock = 0
    /\ instances = NoInstance
    /\ constructed = 0
    /\ thread = [t \in Threads |->
                    [pc |-> "idle", custom_word_file |-> "", instance |-> NoInstance,
                     returned |-> NoInstance, calls |-> 0]]

\* No download.
NoDownload ==
    [obituary_link |-> <<>>, responses |-> [i \in Indices |-> "content"],
     file_writes |-> [i \in Indices |-> "written"], mkdir_ok |-> TRUE]

\* download_obituary_image not called.
NotDownloaded ==
    [called |-> FALSE, raised |-> "", message |-> "", attempts |-> <<>>, written |-> {}]

InitNoDownload ==
    /\ download = NoDownload
    /\ downloaded = NotDownloaded

\* No operation followed on its own has begun.
InitIdle ==
    /\ InitNoPreprocess
    /\ InitNoIteration
    /\ InitSingleton
    /\ InitNoDownload

\* No run yet, an empty store, no temporary file.
InitOrchestrator ==
    /\ store = <<>>
    /\ temp_file = NoFile
    /\ pc = "idle"
    /\ filepath = ""
    /\ spellcheck = FALSE
    /\ directory = <<>>
    /\ processed_records = <<>>
    /\ log = {}
    /\ opened = 0
    /\ closed = 0
    /\ runs = 0
    /\ direct = 0
    /\ calls = NoCalls
    /\ outcome = NoOutcome
    /\ store0 = <<>>
    /\ prev = [valid |-> FALSE, filepath |-> "", store |-> <<>>, outcome |-> NoOutcome]
    /\ dirty = FALSE

Init ==
    /\ fs \in [Files -> Kinds]
    /\ InitOrchestrator
    /\ InitIdle
    /\ cleaner = ""
    /\ text_in = <<>>
    /\ text_out = <<>>
    /\ lexicon = "no_suggestion"
    /\ corrected = NotCorrected
    /\ InitRecords

\* The run as it ends, kept for the next one.
EndOfRun(rows, out) ==
    [valid |-> TRUE, filepath |-> filepath, store |-> rows, outcome |-> out]

\* store_transcription(image_path, text_content, raw_image, obituary_url, db):
\* a caller other than the orchestrator builds a record and adds it.
StoreTranscription(p, img, dberror) ==
    /\ ~Running
    /\ direct < MaxDirect
    /\ LET b == from_image_path(p, [of |-> img, stages |-> <<"given">>], img,
                                get_obituary_url(img))
           a == add_record(store, b.record, dberror)
       IN store' = a.rows
    /\ direct' = direct + 1
    /\ dirty' = TRUE
    /\ UNCHANGED evars
    /\ UNCHANGED <<stem_in, built, last, lexicon, corrected, cleaner, text_in, text_out, fs, temp_file, pc, filepath, spellcheck, directory,
                   processed_records, log, opened, closed, runs, calls,
                   outcome, store0, prev>>

\* transcribe_images(filepath, spellcheck): open the store, list the directory.
StartRun(d, spell) ==
    /\ ~Running
    /\ runs < MaxRuns
    /\ pc' = "loop"
    /\ filepath' = d
    /\ spellcheck' = spell
    /\ directory' = rglob(d)
    /\ processed_records' = <<>>
    /\ log' = {}
    /\ opened' = 1
    /\ closed' = 0
    /\ runs' = runs + 1
    /\ calls' = NoCalls
    /\ outcome' = NoOutcome
    /\ store0' = store
    /\ UNCHANGED evars
    /\ UNCHANGED <<stem_in, built, last, lexicon, corrected, cleaner, text_in, text_out, fs, store, temp_file, direct, prev, dirty>>

\* The file has a record under str(file): append it and continue.
Skip ==
    /\ pc = "loop"
    /\ directory # <<>>
    /\ LET file == Head(directory) IN
       /\ has_record(store, str(file))
       /\ processed_records' =
              skip_records(processed_records, get_record_by_image_path(store, str(file)))
       /\ outcome' = [outcome EXCEPT ![file] = "skipped"]
    /\ directory' = Tail(directory)
    /\ UNCHANGED evars
    /\ UNCHANGED <<stem_in, built, last, lexicon, corrected, cleaner, text_in, text_out, fs, store, temp_file, pc, filepath, spellcheck, log, opened,
                   closed, runs, direct, calls, store0, prev, dirty>>

\* preprocess_image raises ValueError: logged, next file.
PreprocessRejects ==
    /\ pc = "loop"
    /\ directory # <<>>
    /\ LET file == Head(directory) IN
       /\ ~has_record(store, str(file))
       /\ preprocess_image(fs[file], ".jpg").raised = "ValueError"
       /\ calls' = [calls EXCEPT !.preprocess = @ \cup {file}]
       /\ log' = log \cup {file}
       /\ processed_records' = on_error_records(processed_records, file)
       /\ outcome' = [outcome EXCEPT ![file] = "preprocess_failed"]
    /\ directory' = Tail(directory)
    /\ UNCHANGED evars
    /\ UNCHANGED <<stem_in, built, last, lexicon, corrected, cleaner, text_in, text_out, fs, store, temp_file, pc, filepath, spellcheck, opened,
                   closed, runs, direct, store0, prev, dirty>>

\* preprocess_image raises FileNotFoundError, which the except ValueError clause
\* does not catch: it leaves transcribe_images, db.close() is not reached.
PreprocessRaises ==
    /\ pc = "loop"
    /\ directory # <<>>
    /\ LET file == Head(directory) IN
       /\ ~has_record(store, str(file))
       /\ preprocess_image(fs[file], ".jpg").raised = "FileNotFoundError"
       /\ calls' = [calls EXCEPT !.preprocess = @ \cup {file}]
       /\ outcome' = [outcome EXCEPT ![file] = "raised"]
       /\ prev' = EndOfRun(store, outcome')
    /\ pc' = "raised"
    /\ dirty' = FALSE
    /\ UNCHANGED evars
    /\ UNCHANGED <<stem_in, built, last, lexicon, corrected, cleaner, text_in, text_out, fs, store, temp_file, filepath, spellcheck, directory,
                   processed_records, log, opened, closed, runs, direct, store0>>

\* preprocess_image returns and cv2.imwrite is called on the temporary file.
PreprocessWrites(w) ==
    /\ pc = "loop"
    /\ directory # <<>>
    /\ LET file == Head(directory) IN
       /\ ~has_record(store, str(file))
       /\ preprocess_image(fs[file], ".jpg").raised = ""
       /\ calls' = [calls EXCEPT !.preprocess = @ \cup {file}]
       /\ temp_file' = IF w = "written" THEN file ELSE temp_file
       /\ IF w = "cv2.error"
          THEN /\ pc' = "raised"
               /\ outcome' = [outcome EXCEPT ![file] = "raised"]
               /\ prev' = EndOfRun(store, outcome')
               /\ dirty' = FALSE
          ELSE /\ pc' = "try2"
               /\ UNCHANGED <<outcome, prev, dirty>>
    /\ UNCHANGED evars
    /\ UNCHANGED <<stem_in, built, last, lexicon, corrected, cleaner, text_in, text_out, fs, store, filepath, spellcheck, directory, processed_records,
                   log, opened, closed, runs, direct, store0>>

\* Image.open(temp_file) raises UnidentifiedImageError: continue, nothing logged.
ReopenUnidentified ==
    /\ pc = "try2"
    /\ temp_file # NoFile
    /\ LET file == Head(directory) IN
       /\ processed_records' = on_error_records(processed_records, file)
       /\ outcome' = [outcome EXCEPT ![file] = "pipeline_failed"]
    /\ pc' = "loop"
    /\ directory' = Tail(directory)
    /\ UNCHANGED evars
    /\ UNCHANGED <<stem_in, built, last, lexicon, corrected, cleaner, text_in, text_out, fs, store, temp_file, filepath, spellcheck, log, opened,
                   closed, runs, direct, calls, store0, prev, dirty>>

\* Image.open raises another error (no temporary file, an OS error), the OCR
\* engine raises, or a text stage raises: logged by except Exception.
PipelineError(stage) ==
    /\ pc = "try2"
    /\ stage = "open" \/ temp_file # NoFile
    /\ stage = "autocorrect" => spellcheck
    /\ LET file == Head(directory) IN
       /\ calls' = IF stage = "open" THEN calls
                   ELSE [calls EXCEPT !.ocr = @ \cup {file}]
       /\ log' = log \cup {file}
       /\ processed_records' = on_error_records(processed_records, file)
       /\ outcome' = [outcome EXCEPT ![file] = "pipeline_failed"]
    /\ pc' = "loop"
    /\ directory' = Tail(directory)
    /\ UNCHANGED evars
    /\ UNCHANGED <<stem_in, built, last, lexicon, corrected, cleaner, text_in, text_out, fs, store, temp_file, filepath, spellcheck, opened, closed,
                   runs, direct, store0, prev, dirty>>

\* The temporary image opens, OCR and the text stages return: the record is
\* built and added, or the failure of either is logged.
Persist(dberror) ==
    /\ pc = "try2"
    /\ temp_file # NoFile
    /\ LET file == Head(directory)
           text == text_stages(image_to_string(temp_file), spellcheck)
           r == persist(store, processed_records, file, text, temp_file, dberror)
       IN /\ store' = r.rows
          /\ processed_records' = r.processed
          /\ calls' = [calls EXCEPT !.ocr = @ \cup {file}, !.add = @ + r.add_calls]
          /\ log' = IF r.raised # "" THEN log \cup {file} ELSE log
          /\ outcome' = [outcome EXCEPT ![file] =
                            IF r.raised # "" THEN "persist_failed" ELSE "persisted"]
    /\ pc' = "loop"
    /\ directory' = Tail(directory)
    /\ UNCHANGED evars
    /\ UNCHANGED <<stem_in, built, last, lexicon, corrected, cleaner, text_in, text_out, fs, temp_file, filepath, spellcheck, opened, closed, runs,
                   direct, store0, prev, dirty>>

\* The loop is over: db.close() and return processed_records.
Finish ==
    /\ pc = "loop"
    /\ directory = <<>>
    /\ closed' = closed + 1
    /\ pc' = "idle"
    /\ prev' = EndOfRun(store, outcome)
    /\ dirty' = FALSE
    /\ UNCHANGED evars
    /\ UNCHANGED <<stem_in, built, last, lexicon, corrected, cleaner, text_in, text_out, fs, store, temp_file, filepath, spellcheck, directory,
                   processed_records, log, opened, runs, direct, calls, outcome,
                   store0>>

Next ==
    \/ \E f \in Files, e \in BOOLEAN :
           \E p \in {str(f), file_name(f)} : StoreTranscription(p, f, e)
    \/ \E d \in Dirs, s \in BOOLEAN : StartRun(d, s)
    \/ Skip
    \/ PreprocessRejects
    \/ PreprocessRaises
    \/ \E w \in WriteOutcomes : PreprocessWrites(w)
    \/ ReopenUnidentified
    \/ \E stage \in {"open", "ocr", "autocorrect"} : PipelineError(stage)
    \/ \E e \in BOOLEAN : Persist(e)
    \/ Finish

Spec == Init /\ [][Next]_vars

(* ------------------ the normalizer applied to a text ------------------- *)

InitClean ==
    /\ fs = [f \in Files |-> "image"]
    /\ InitOrchestrator
    /\ InitIdle
    /\ cleaner \in {"TextNormalizer", "transcriber"}
    /\ text_in \in Texts(MaxLen)
    /\ text_out = <<>>
    /\ lexicon = "no_suggestion"
    /\ corrected = NotCorrected
    /\ InitRecords

\* The text the next cleaning is applied to: the raw text, then the result.
Current == IF text_out = <<>> THEN text_in ELSE text_out[Len(text_out)]

\* TextNormalizer().clean_text(text)
CleanText ==
    /\ cleaner = "TextNormalizer"
    /\ Len(text_out) < 2
    /\ text_out' = Append(text_out, clean_text(Current))
    /\ UNCHANGED <<cleaner, text_in>>
    /\ UNCHANGED evars
    /\ UNCHANGED cvars
    /\ UNCHANGED rvars
    /\ UNCHANGED ovars

\* normalize_whitespace(clean_irregular_text(text)), as transcribe_images calls them
TranscriberClean ==
    /\ cleaner = "transcriber"
    /\ Len(text_out) < 2
    /\ text_out' = Append(text_out, transcriber_clean(Current))
    /\ UNCHANGED <<cleaner, text_in>>
    /\ UNCHANGED evars
    /\ UNCHANGED cvars
    /\ UNCHANGED rvars
    /\ UNCHANGED ovars

NextClean == CleanText \/ TranscriberClean

SpecClean == InitClean /\ [][NextClean]_vars

(* ------------------ the corrector applied to a text -------------------- *)

InitCorrect ==
    /\ fs = [f \in Files |-> "image"]
    /\ InitOrchestrator
    /\ InitIdle
    /\ cleaner \in {"obit_reader", "autocorrection"}
    /\ text_in \in CorrectTexts(MaxLen)
    /\ text_out = <<>>
    /\ lexicon \in Lexicons
    /\ corrected = NotCorrected
    /\ InitRecords

\* autocorrect_text(text) of obit_reader.py
AutocorrectText ==
    /\ cleaner = "obit_reader"
    /\ ~corrected.called
    /\ LET r == autocorrect_text(text_in, lexicon) IN
       corrected' = [called |-> TRUE, raised |-> r.raised, text |-> r.text,
                     lookups |-> r.lookups]
    /\ UNCHANGED evars
    /\ UNCHANGED <<lexicon, cleaner, text_in, text_out>>
    /\ UNCHANGED rvars
    /\ UNCHANGED ovars

\* autocorrect_text(text) of src/autocorrection.py
AutocorrectionAutocorrectText ==
    /\ cleaner = "autocorrection"
    /\ ~corrected.called
    /\ LET r == autocorrection_autocorrect_text(text_in, lexicon) IN
       corrected' = [called |-> TRUE, raised |-> r.raised, text |-> r.text,
                     lookups |-> r.lookups]
    /\ UNCHANGED evars
    /\ UNCHANGED <<lexicon, cleaner, text_in, text_out>>
    /\ UNCHANGED rvars
    /\ UNCHANGED ovars

NextCorrect == AutocorrectText \/ AutocorrectionAutocorrectText

SpecCorrect == InitCorrect /\ [][NextCorrect]_vars

(* ---------------- from_image_path applied to a stem --------------------- *)

InitRecord ==
    /\ fs = [f \in Files |-> "image"]
    /\ InitOrchestrator
    /\ InitIdle
    /\ cleaner = ""
    /\ text_in = <<>>
    /\ text_out = <<>>
    /\ lexicon = "no_suggestion"
    /\ corrected = NotCorrected
    /\ stem_in \in RecordStems(MaxName)
    /\ built = None
    /\ last = NoCall

\* ObituaryRecord.from_image_path(image_path, text_content, raw_image, url)
FromImagePath ==
    /\ built = None
    /\ LET image_path == File("", jpg(stem_in)) IN
       built' = from_image_path(image_path, <<"text">>, image_path,
                                get_obituary_url(image_path)).record
    /\ UNCHANGED <<stem_in, last>>
    /\ UNCHANGED tvars
    /\ UNCHANGED evars
    /\ UNCHANGED cvars
    /\ UNCHANGED ovars

NextRecord == FromImagePath

SpecRecord == InitRecord /\ [][NextRecord]_vars

(* ------------------------ operations on the store ---------------------- *)

InitStore ==
    /\ fs = [f \in Files |-> "image"]
    /\ InitOrchestrator
    /\ InitIdle
    /\ cleaner = ""
    /\ text_in = <<>>
    /\ text_out = <<>>
    /\ lexicon = "no_suggestion"
    /\ corrected = NotCorrected
    /\ InitRecords

\* store_transcription(image_path, text_content, raw_image, obituary_url, db)
DbStoreTranscription(stem) ==
    /\ Len(store) < MaxRows
    /\ LET image_path == File("", jpg(stem))
           b == from_image_path(image_path, <<"text">>, image_path,
                                get_obituary_url(image_path))
           a == add_record(store, b.record, FALSE)
       IN /\ store' = a.rows
          /\ last' = [op |-> "add_record", image_path |-> image_path, url |-> <<>>,
                      returned |-> TRUE, raised |-> a.raised, before |-> store,
                      image |-> Some(image_path), record |-> b.record]
    /\ UNCHANGED <<stem_in, built>>
    /\ UNCHANGED <<fs, temp_file, pc, filepath, spellcheck, directory,
                   processed_records, log, opened, closed, runs, direct, calls,
                   outcome, store0, prev, dirty>>
    /\ UNCHANGED tvars
    /\ UNCHANGED evars
    /\ UNCHANGED cvars

\* db.add_record(record) for a record made with the constructor from year,
\* month and day, date_published left at its default: a row as it was written
\* before the table had the column.
DbAddRecordWithoutDate(stem) ==
    /\ Len(store) < MaxRows
    /\ LET image_path == File("", jpg(stem))
           b == from_image_path(image_path, <<"text">>, image_path,
                                get_obituary_url(image_path))
           a == add_record(store, [b.record EXCEPT !.date_published = None], FALSE)
       IN /\ store' = a.rows
          /\ last' = [op |-> "add_record", image_path |-> image_path, url |-> <<>>,
                      returned |-> TRUE, raised |-> a.raised, before |-> store,
                      image |-> Some(image_path), record |-> [b.record EXCEPT !.date_published = None]]
    /\ UNCHANGED <<stem_in, built>>
    /\ UNCHANGED <<fs, temp_file, pc, filepath, spellcheck, directory,
                   processed_records, log, opened, closed, runs, direct, calls,
                   outcome, store0, prev, dirty>>
    /\ UNCHANGED tvars
    /\ UNCHANGED evars
    /\ UNCHANGED cvars

\* db.add_record(ObituaryRecord(image_path, text_content)): a record with no
\* thumbnail.
DbAddRecordWithoutImage(stem) ==
    /\ Len(store) < MaxRows
    /\ LET image_path == File("", jpg(stem))
           a == add_record(store, ObituaryRecord(image_path, <<"text">>), FALSE)
       IN /\ store' = a.rows
          /\ last' = [op |-> "add_record", image_path |-> image_path, url |-> <<>>,
                      returned |-> TRUE, raised |-> a.raised, before |-> store,
                      image |-> None,
                      record |-> ObituaryRecord(image_path, <<"text">>)]
    /\ UNCHANGED <<stem_in, built>>
    /\ UNCHANGED <<fs, temp_file, pc, filepath, spellcheck, directory,
                   processed_records, log, opened, closed, runs, direct, calls,
                   outcome, store0, prev, dirty>>
    /\ UNCHANGED tvars
    /\ UNCHANGED evars
    /\ UNCHANGED cvars

\* The tail of the second try block of transcribe_images for the file with this
\* stem: the record is built without a source image and added.
DbPersist(stem) ==
    /\ Len(store) < MaxRows
    /\ LET file == File("", jpg(stem))
           r == persist(store, <<>>, file, <<"text">>, file, FALSE)
       IN /\ store' = r.rows
          /\ last' = [op |-> "persist", image_path |-> file_name(file), url |-> <<>>,
                      returned |-> r.raised = "", raised |-> r.raised, before |-> store,
                      image |-> None, record |-> None]
    /\ UNCHANGED <<stem_in, built>>
    /\ UNCHANGED <<fs, temp_file, pc, filepath, spellcheck, directory,
                   processed_records, log, opened, closed, runs, direct, calls,
                   outcome, store0, prev, dirty>>
    /\ UNCHANGED tvars
    /\ UNCHANGED evars
    /\ UNCHANGED cvars

\* db.get_record_by_image_path(image_path), and db.get_all_records(): the table
\* is read and left as it is.
DbGetRecordByImagePath(stem) ==
    /\ LET image_path == File("", jpg(stem))
           found == get_record_by_image_path(get_all_records(store), image_path)
       IN last' = [op |-> "get_record_by_image_path", image_path |-> image_path,
                   url |-> <<>>, returned |-> found # None, raised |-> "",
                   before |-> store, image |-> None, record |-> found]
    /\ UNCHANGED store
    /\ UNCHANGED <<stem_in, built>>
    /\ UNCHANGED <<fs, temp_file, pc, filepath, spellcheck, directory,
                   processed_records, log, opened, closed, runs, direct, calls,
                   outcome, store0, prev, dirty>>
    /\ UNCHANGED tvars
    /\ UNCHANGED evars
    /\ UNCHANGED cvars

\* db.update_url(image_path, url)
DbUpdateUrl(stem, url) ==
    /\ LET image_path == File("", jpg(stem))
           u == update_url(store, image_path, url)
       IN /\ store' = u.rows
          /\ last' = [op |-> "update_url", image_path |-> image_path, url |-> url,
                      returned |-> u.returned, raised |-> "", before |-> store,
                      image |-> None, record |-> None]
    /\ UNCHANGED <<stem_in, built>>
    /\ UNCHANGED <<fs, temp_file, pc, filepath, spellcheck, directory,
                   processed_records, log, opened, closed, runs, direct, calls,
                   outcome, store0, prev, dirty>>
    /\ UNCHANGED tvars
    /\ UNCHANGED evars
    /\ UNCHANGED cvars

\* db.populate_date_published()
DbPopulateDatePublished ==
    /\ store' = populate_date_published(store)
    /\ last' = [op |-> "populate_date_published", image_path |-> NoFile, url |-> <<>>,
                returned |-> TRUE, raised |-> "", before |-> store, image |-> None,
                record |-> None]
    /\ UNCHANGED <<stem_in, built>>
    /\ UNCHANGED <<fs, temp_file, pc, filepath, spellcheck, directory,
                   processed_records, log, opened, closed, runs, direct, calls,
                   outcome, store0, prev, dirty>>
    /\ UNCHANGED tvars
    /\ UNCHANGED evars
    /\ UNCHANGED cvars

NextStore ==
    \/ \E stem \in StoreStems : DbStoreTranscription(stem)
    \/ \E stem \in StoreStems : DbAddRecordWithoutDate(stem)
    \/ \E stem \in StoreStems : DbAddRecordWithoutImage(stem)
    \/ \E stem \in StoreStems : DbPersist(stem)
    \/ \E stem \in StoreStems, url \in Urls : DbUpdateUrl(stem, url)
    \/ \E stem \in StoreStems : DbGetRecordByImagePath(stem)
    \/ DbPopulateDatePublished

SpecStore == InitStore /\ [][NextStore]_vars

(* ------------------ preprocess_image applied to a file ------------------ *)

\* The heights and widths of the decoded images.
Sides == 1..MaxSide

InitPreprocess ==
    /\ fs = [f \in Files |-> "image"]
    /\ InitOrchestrator
    /\ cleaner = ""
    /\ text_in = <<>>
    /\ text_out = <<>>
    /\ lexicon = "no_suggestion"
    /\ corrected = NotCorrected
    /\ InitRecords
    /\ image_file \in [kind : Kinds, suffix : GivenSuffixes,
                       shape : [height : Sides, width : Sides]]
    /\ processed_img = NotPreprocessed
    /\ InitNoIteration
    /\ InitSingleton
    /\ InitNoDownload

\* preprocess_image(image_path)
PreprocessImage ==
    /\ ~processed_img.called
    /\ processed_img' = preprocess(image_file.kind, image_file.suffix, image_file.shape)
    /\ UNCHANGED image_file
    /\ UNCHANGED ivars
    /\ UNCHANGED svars
    /\ UNCHANGED dvars
    /\ UNCHANGED tvars
    /\ UNCHANGED cvars
    /\ UNCHANGED rvars
    /\ UNCHANGED ovars

NextPreprocess == PreprocessImage

SpecPreprocess == InitPreprocess /\ [][NextPreprocess]_vars

(* --------------- one iteration of the loop, call by call ---------------- *)

InitIteration ==
    /\ fs = [f \in Files |-> "image"]
    /\ InitOrchestrator
    /\ cleaner = ""
    /\ text_in = <<>>
    /\ text_out = <<>>
    /\ lexicon = "no_suggestion"
    /\ corrected = NotCorrected
    /\ InitRecords
    /\ InitNoPreprocess
    /\ iteration \in [existing : BOOLEAN, kind : Kinds, spellcheck : BOOLEAN,
                      normalize : BOOLEAN, write : WriteOutcomes, open : OpenOutcomes,
                      ocr_ok : BOOLEAN, correct_ok : BOOLEAN, dberror : BOOLEAN]
    /\ iterated = NotIterated
    /\ InitSingleton
    /\ InitNoDownload

\* The body of the for loop of transcribe_images, once.
LoopBody ==
    /\ ~iterated.called
    /\ iterated' = loop_body(iteration)
    /\ UNCHANGED iteration
    /\ UNCHANGED pvars
    /\ UNCHANGED svars
    /\ UNCHANGED dvars
    /\ UNCHANGED tvars
    /\ UNCHANGED cvars
    /\ UNCHANGED rvars
    /\ UNCHANGED ovars

NextIteration == LoopBody

SpecIteration == InitIteration /\ [][NextIteration]_vars

(* ------------- threads calling SpellCheckerSingleton() ------------------ *)

InitThreads ==
    /\ fs = [f \in Files |-> "image"]
    /\ InitOrchestrator
    /\ cleaner = ""
    /\ text_in = <<>>
    /\ text_out = <<>>
    /\ lexicon = "no_suggestion"
    /\ corrected = NotCorrected
    /\ InitRecords
    /\ InitNoPreprocess
    /\ InitNoIteration
    /\ InitSingleton
    /\ InitNoDownload

\* What a step of a thread leaves alone besides the singleton's variables.
SingletonFrame ==
    /\ UNCHANGED pvars
    /\ UNCHANGED ivars
    /\ UNCHANGED dvars
    /\ UNCHANGED tvars
    /\ UNCHANGED cvars
    /\ UNCHANGED rvars
    /\ UNCHANGED ovars

\* Thread t calls SpellCheckerSingleton(custom_word_file) and comes to the
\* with statement.
SingletonCall(t, custom_word_file) ==
    /\ thread[t].pc = "idle"
    /\ thread[t].calls < MaxCalls
    /\ thread' = [thread EXCEPT ![t].pc = "with", ![t].custom_word_file = custom_word_file,
                                ![t].instance = NoInstance]
    /\ UNCHANGED <<lock, instances, constructed>>
    /\ SingletonFrame

\* with cls._lock: thread t enters when the lock is free.
Acquire(t) ==
    /\ thread[t].pc = "with"
    /\ lock_free(lock)
    /\ lock' = t
    /\ thread' = [thread EXCEPT ![t].pc = "if"]
    /\ UNCHANGED <<instances, constructed>>
    /\ SingletonFrame

\* if cls not in cls._instances
CheckInstances(t) ==
    /\ thread[t].pc = "if"
    /\ thread' = [thread EXCEPT ![t].pc =
                      IF instances = NoInstance THEN "construct" ELSE "exit"]
    /\ UNCHANGED <<lock, instances, constructed>>
    /\ SingletonFrame

\* instance = super().__call__(*args, **kwargs): __init__ makes the spell
\* checker and loads the word file, or logs that it did not load.
Construct(t, loads) ==
    /\ thread[t].pc = "construct"
    /\ constructed' = constructed + 1
    /\ thread' = [thread EXCEPT
                      ![t].pc = "store",
                      ![t].instance = init(constructed + 1, thread[t].custom_word_file, loads)]
    /\ UNCHANGED <<lock, instances>>
    /\ SingletonFrame

\* SpellChecker() raises in __init__: the exception leaves the with statement,
\* which releases the lock, and the call.
ConstructRaises(t) ==
    /\ thread[t].pc = "construct"
    /\ lock' = 0
    /\ thread' = [thread EXCEPT ![t].pc = "idle", ![t].calls = @ + 1]
    /\ UNCHANGED <<instances, constructed>>
    /\ SingletonFrame

\* cls._instances[cls] = instance
StoreInstance(t) ==
    /\ thread[t].pc = "store"
    /\ instances' = thread[t].instance
    /\ thread' = [thread EXCEPT ![t].pc = "exit"]
    /\ UNCHANGED <<lock, constructed>>
    /\ SingletonFrame

\* The end of the with statement: the lock is released.
Release(t) ==
    /\ thread[t].pc = "exit"
    /\ lock' = 0
    /\ thread' = [thread EXCEPT ![t].pc = "return"]
    /\ UNCHANGED <<instances, constructed>>
    /\ SingletonFrame

\* return cls._instances[cls]
Return(t) ==
    /\ thread[t].pc = "return"
    /\ thread' = [thread EXCEPT ![t].pc = "idle", ![t].returned = instances,
                                ![t].calls = @ + 1]
    /\ UNCHANGED <<lock, instances, constructed>>
    /\ SingletonFrame

NextThreads ==
    \/ \E t \in Threads, f \in WordFiles : SingletonCall(t, f)
    \/ \E t \in Threads : Acquire(t)
    \/ \E t \in Threads : CheckInstances(t)
    \/ \E t \in Threads, loads \in BOOLEAN : Construct(t, loads)
    \/ \E t \in Threads : ConstructRaises(t)
    \/ \E t \in Threads : StoreInstance(t)
    \/ \E t \in Threads : Release(t)
    \/ \E t \in Threads : Return(t)

SpecThreads == InitThreads /\ [][NextThreads]_vars

(* ------------------- download_obituary_image on a link ------------------ *)

InitDownload ==
    /\ fs = [f \in Files |-> "image"]
    /\ InitOrchestrator
    /\ cleaner = ""
    /\ text_in = <<>>
    /\ text_out = <<>>
    /\ lexicon = "no_suggestion"
    /\ corrected = NotCorrected
    /\ InitRecords
    /\ InitNoPreprocess
    /\ InitNoIteration
    /\ InitSingleton
    /\ download \in [obituary_link : Links, responses : [Indices -> Responses],
                     file_writes : [Indices -> FileWrites], mkdir_ok : BOOLEAN]
    /\ downloaded = NotDownloaded

\* download_obituary_image(obituary_link, client)
DownloadObituaryImage ==
    /\ ~downloaded.called
    /\ downloaded' = download_obituary_image(download.obituary_link, download.responses,
                                             download.file_writes, download.mkdir_ok)
    /\ UNCHANGED download
    /\ UNCHANGED pvars
    /\ UNCHANGED ivars
    /\ UNCHANGED svars
    /\ UNCHANGED tvars
    /\ UNCHANGED cvars
    /\ UNCHANGED rvars
    /\ UNCHANGED ovars

NextDownload == DownloadObituaryImage

SpecDownload == InitDownload /\ [][NextDownload]_vars

(* ------------------------------ the claims ----------------------------- *)

\* Every image_path a row can carry.
Paths == {str(f) : f \in Files} \cup {file_name(f) : f \in Files}

\* The number of rows with this image_path.
RowsWith(rows, p) == Cardinality({i \in DOMAIN rows : rows[i].image_path = p})

\* The current run repeats the previous one: same directory, and nothing else
\* wrote to the store in between.
Rerun == Running /\ prev.valid /\ prev.filepath = filepath /\ ~dirty

\* The files whose name no other file carries.
UniqueName(f) == \A g \in Files : g.name = f.name => g = f

\* How a file ends when it ends in failure.
FailureOutcomes == {"preprocess_failed", "pipeline_failed", "persist_failed"}

C3_SkipOnRerun ==
    \A f \in Files :
        (Running /\ UniqueName(f) /\ has_record(store0, file_name(f)))
            => (/\ f \notin calls.preprocess
                /\ f \notin calls.ocr
                /\ outcome[f] \in {"", "skipped"})

\* C4 (as claimed): no failure of a stage leaves transcribe_images as an
\* exception; the loop goes on to the remaining files.
C4_NoFailureAborts == pc # "raised"

C7_FailureLogged ==
    \A f \in Files : outcome[f] \in FailureOutcomes => f \in log

C9_ConnectionLifetime ==
    (~Running /\ runs > 0) => (opened = 1 /\ closed = 1)

\* C10 (as claimed): cleaning the result of a cleaning changes nothing:
\* clean(clean(s)) = clean(s) for every text s.
C10_CleanIdempotent ==
    Len(text_out) = 2 => text_out[2] = text_out[1]

\* The positions of the letters and digits of s from position i on, ascending.
\* No rule deletes or inserts a letter or a digit, so the k-th of them in a
\* text and the k-th in its cleaning are the same character of the scan.
RECURSIVE AlnumFrom(_, _)
AlnumFrom(s, i) ==
    IF i > Len(s) THEN <<>>
    ELSE (IF s[i] \in Letters \cup Digits THEN <<i>> ELSE <<>>) \o AlnumFrom(s, i + 1)

\* The letter a repaired digit becomes.
Repaired(d) ==
    CASE d = "4" -> "a" [] d = "1" -> "l" [] d = "0" -> "o" [] d = "5" -> "s"
      [] OTHER -> d

\* Position i of s has a letter on both sides.
Sandwiched(s, i) ==
    /\ 1 < i
    /\ i < Len(s)
    /\ s[i - 1] \in Letters
    /\ s[i + 1] \in Letters

\* Every digit of before that differs in after became its letter and is
\* sandwiched in the text where.
OnlySandwichedRepaired(before, where, after) ==
    LET b == AlnumFrom(before, 1)
        w == AlnumFrom(where, 1)
        a == AlnumFrom(after, 1)
    IN /\ Len(b) = Len(a)
       /\ Len(w) = Len(a)
       /\ \A k \in DOMAIN b :
              (before[b[k]] \in Digits /\ after[a[k]] # before[b[k]])
                  => (/\ after[a[k]] = Repaired(before[b[k]])
                      /\ Sandwiched(where, w[k]))

\* C11 (as claimed): a digit is changed by the cleaning only when both its
\* neighbours in the input are letters; every other digit is unchanged.
C11_DigitRepairInput ==
    Len(text_out) >= 1 => OnlySandwichedRepaired(text_in, text_in, text_out[1])

\* C11 (amended): a digit is changed by the cleaning only to its letter and only
\* when both its neighbours are letters in the text the digit rule is applied
\* to, which is the input after line-ending normalization, per-line trim and
\* hyphenation repair; a digit that begins the second half of a word rejoined
\* across a line break has the first half's last letter as its neighbour.
C11_DigitRepairSandwiched ==
    Len(text_out) >= 1 =>
        OnlySandwichedRepaired(
            text_in,
            fix_hyphenation(strip_lines(normalize_line_endings(text_in))),
            text_out[1])

\* C11 witness: the digit after a hyphenated line break is repaired, its left
\* neighbour in the input being the newline.
C11_Witness ==
    /\ text_in = <<"a", "-", "\n", "1", "a">>
    /\ Len(text_out) >= 1
    /\ text_out[1] = <<"a", "l", "a">>

\* s holds a word character, a hyphen, a run of whitespace with a newline in
\* it, and a word character: a word still broken across lines.
HasBrokenWord(s) ==
    \E i \in 1..Len(s) :
        /\ s[i] \in WordChars
        /\ i < Len(s)
        /\ s[i + 1] = "-"
        /\ LET r == Drop(s, i + 1)
               g == RunIn(r, Whitespace)
           IN /\ \E j \in 1..g : r[j] = "\n"
              /\ g < Len(r)
              /\ r[g + 1] \in WordChars

\* C12 (as claimed): the cleaning of a text holds no word broken across a line
\* boundary by a trailing hyphen.
C12_HyphenationComplete ==
    Len(text_out) >= 1 => ~HasBrokenWord(text_out[1])

\* The word has a capital first.
Capitalised(word) == word # <<>> /\ word[1] \in Uppercase

\* The trailing run of punctuation of a word.
TrailingPunctuation(word) == Drop(word, end_of_word(word))

\* C13 (as claimed): autocorrect_text returns a text in which every word of the
\* input that begins with a capital stands unchanged at its position, and no
\* such word is looked up in the dictionary.
C13_ProperNounSkip ==
    corrected.called =>
        LET words == split(text_in)
            out == split(corrected.text)
        IN /\ corrected.raised = ""
           /\ Len(out) = Len(words)
           /\ \A i \in DOMAIN words :
                  Capitalised(words[i]) => out[i] = words[i]
           /\ \A w \in corrected.lookups : ~Capitalised(w)

DatedStem(stem) ==
    /\ Len(stem) >= 9
    /\ \A i \in 1..8 : stem[i] \in Digits
    /\ stem[9] = "_"

\* The underscore-delimited tokens T1 .. Tn of the name part of a dated stem.
Tokens(stem) == split_underscore(Drop(stem, 9))

\* A token as a file name carries it: not empty, no whitespace at its ends.
PlainToken(t) == t # <<>> /\ strip(t) = t

\* C16: for a stem YYYYMMDD_T1_..._Tn with n >= 2, the record from_image_path
\* builds has the three digit groups as year, month and day, T1 as last name,
\* T2 .. Tn joined by single spaces as first name, and "T1, " followed by the
\* first name as name; the tokens being plain ones (not empty, no whitespace at
\* their ends). Whatever the tokens, the last name is T1 and the first name is
\* the joined rest, each without the whitespace at its ends.
C16_NameAndDateParsing ==
    (built # None /\ DatedStem(stem_in) /\ Len(Tokens(stem_in)) >= 2) =>
        LET T == Tokens(stem_in)
            rest == join_space(Tail(T))
        IN /\ built.year = Some(SubSeq(stem_in, 1, 4))
           /\ built.month = Some(SubSeq(stem_in, 5, 6))
           /\ built.day = Some(SubSeq(stem_in, 7, 8))
           /\ built.last_name = Some(strip(T[1]))
           /\ built.first_name = Some(strip(rest))
           /\ built.name = Some(strip(T[1]) \o <<",", " ">> \o strip(rest))
           /\ (\A i \in DOMAIN T : PlainToken(T[i])) =>
                  /\ built.last_name = Some(T[1])
                  /\ built.first_name = Some(rest)
                  /\ built.name = Some(T[1] \o <<",", " ">> \o rest)

\* C16 witness: the record of a stem with a date and three tokens.
C16_Witness ==
    /\ stem_in = <<"1", "9", "9", "1", "0", "1", "1", "0", "_", "A", "_", "R", "_", "R">>
    /\ built # None
    /\ built.year = Some(<<"1", "9", "9", "1">>)
    /\ built.month = Some(<<"0", "1">>)
    /\ built.day = Some(<<"1", "0">>)
    /\ built.last_name = Some(<<"A">>)
    /\ built.first_name = Some(<<"R", " ", "R">>)
    /\ built.name = Some(<<"A", ",", " ", "R", " ", "R">>)

\* The year, month and day of the row are digit strings that make a date.
MakesDate(r) ==
    /\ r.year # None /\ r.month # None /\ r.day # None
    /\ LET y == int(r.year.value)
           m == int(r.month.value)
           d == int(r.day.value)
       IN /\ 1 <= y /\ 1 <= m /\ m <= 12 /\ 1 <= d /\ d <= days_in_month(y, m)

C18_StemWithoutUnderscore ==
    (built # None /\ \A i \in DOMAIN stem_in : stem_in[i] # "_") =>
        /\ built.year = None
        /\ built.month = None
        /\ built.day = None
        /\ built.first_name = None
        /\ built.last_name = None
        /\ built.name = Some(stem_in)

\* C19 (as claimed): add_record for an image_path that has a row fails and
\* leaves the store as it was; no two rows have the same image_path.
C19_DuplicateInsertFails ==
    /\ (last.op = "add_record" /\ has_record(last.before, last.image_path))
           => (last.raised # "" /\ store = last.before)
    /\ \A i, j \in DOMAIN store :
           store[i].image_path = store[j].image_path => i = j

\* C20: update_url(p, u) returns true exactly when a row has image_path p; the
\* rows with image_path p then have URL u and are otherwise as they were, every
\* other row is as it was, and no row is added or removed; when no row has
\* image_path p the store is as it was.
C20_UpdateUrlFrame ==
    last.op = "update_url" =>
        /\ last.returned = has_record(last.before, last.image_path)
        /\ Len(store) = Len(last.before)
        /\ \A i \in DOMAIN store :
               IF last.before[i].image_path = last.image_path
               THEN store[i] = [last.before[i] EXCEPT !.obituary_url = last.url]
               ELSE store[i] = last.before[i]
        /\ ~last.returned => store = last.before

\* C20 witness: of two rows with different paths, update_url has changed the
\* URL of one and returned true.
C20_Witness ==
    /\ last.op = "update_url"
    /\ last.returned
    /\ Len(store) = 2
    /\ store[1].image_path # store[2].image_path
    /\ store[2].image_path = last.image_path
    /\ store[2].obituary_url = last.url
    /\ store[2] # last.before[2]
    /\ store[1] = last.before[1]

\* C21 (as claimed): no store operation removes a row, and every column of a
\* row other than obituary_url keeps the value the row was inserted with.
C21_RecordLifecycle ==
    [][\A i \in DOMAIN store :
           /\ i \in DOMAIN store'
           /\ [store'[i] EXCEPT !.obituary_url = store[i].obituary_url] = store[i]]_vars

\* The text is the empty string: the OCR output of a blank page, which every
\* text stage leaves empty.
EmptyText(text) == text.of \in BlankPages

\* The step that ends the second try block for the current file with the
\* temporary image opened, OCRed and the text stages returned.
TextStagesReturned ==
    /\ pc = "try2"
    /\ pc' = "loop"
    /\ outcome'[Head(directory)] \in {"persisted", "persist_failed"}

\* C22 (as claimed): every record in the store and in the result has a
\* text_content; a file whose pipeline failed in a run has no record from that
\* run in either; and a file for which the OCR engine returned the empty string gets a record with
\* empty text added to the store and to the result (unless the store fails).
C22_TextNeverAbsent ==
    [][/\ \A i \in DOMAIN store' : store'[i].text_content # None
       /\ \A i \in DOMAIN processed_records' : processed_records'[i].text_content # None
       /\ \A f \in Files :
              (Running /\ outcome'[f] \in FailureOutcomes \cup {"raised"}) =>
                  /\ RowsWith(store', file_name(f)) = RowsWith(store0', file_name(f))
                  /\ RowsWith(store', str(f)) = RowsWith(store0', str(f))
                  /\ \A i \in DOMAIN processed_records' :
                         processed_records'[i].image_path \notin {file_name(f), str(f)}
       /\ (TextStagesReturned /\ EmptyText(image_to_string(temp_file))) =>
              /\ calls'.add = calls.add + 1
              /\ outcome'[Head(directory)] = "persisted" =>
                     /\ Len(store') = Len(store) + 1
                     /\ store'[Len(store')].image_path = file_name(Head(directory))
                     /\ EmptyText(store'[Len(store')].text_content)
                     /\ processed_records' = Append(processed_records, store'[Len(store')])]_vars

\* The validation checks of preprocess_image, in the order claimed.
Checks == <<"exists", "type", "size", "verify">>

\* Whether the file fails the check, taken alone: a name with no regular file
\* behind it fails every check of the file; a zero-byte file does not verify.
FailsCheck(file, check) ==
    CASE check = "exists" -> file.kind = "dangling"
      [] check = "type" -> file.suffix \notin {".jpg", ".jpeg", ".png", ".JPG", ".Png"}
      [] check = "size" -> file.kind \in {"dangling", "empty"}
      [] check = "verify" -> file.kind \in {"dangling", "empty", "corrupt"}

\* The failure of each check: the exception and the head of its message.
FailureOf(check) ==
    CASE check = "exists" -> <<"FileNotFoundError", "File not found">>
      [] check = "type" -> <<"ValueError", "Unsupported file type">>
      [] check = "size" -> <<"ValueError", "File is empty">>
      [] check = "verify" -> <<"ValueError", "File is corrupted">>

\* C23: preprocess_image fails with the failure of the first check, in the
\* order exists, type, size, verify, that the file fails; the four failures
\* are distinct; a failed validation runs no processing step and returns no
\* image; a file that passes every check is processed and an image returned.
C23_ValidationOrder ==
    processed_img.called =>
        LET failing == {i \in DOMAIN Checks : FailsCheck(image_file, Checks[i])} IN
        /\ \A i, j \in DOMAIN Checks : FailureOf(Checks[i]) = FailureOf(Checks[j]) => i = j
        /\ failing # {} =>
               LET first == CHOOSE i \in failing : \A j \in failing : i <= j IN
               /\ <<processed_img.raised, processed_img.msg>> = FailureOf(Checks[first])
               /\ processed_img.steps = <<>>
               /\ processed_img.image = None
        /\ failing = {} =>
               /\ processed_img.raised = ""
               /\ processed_img.steps # <<>>
               /\ processed_img.image # None

\* C23 witness: a zero-byte file with an unsupported suffix was rejected for
\* its type.
C23_Witness ==
    /\ processed_img.called
    /\ image_file.kind = "empty"
    /\ image_file.suffix = ".txt"
    /\ processed_img.msg = "Unsupported file type"
    /\ processed_img.image = None

\* The files on disk at any depth under the directory whose suffix
\* preprocess_image accepts.
SupportedUnder(d) ==
    {Disk[i] : i \in {j \in DOMAIN Disk :
                         /\ Disk[j].dir \in Subdirs(d)
                         /\ Disk[j].name[Len(Disk[j].name)] \in {".jpg", ".jpeg", ".png"}}}

\* C24 (as claimed): when transcribe_images returns, the files it has visited
\* are the files at any depth under the directory with suffix .jpg, .jpeg or
\* .png, and the list it went through names no file twice.
C24_InputDiscovery ==
    (pc = "idle" /\ runs > 0) =>
        /\ {f \in Files : outcome[f] # ""} = SupportedUnder(filepath)
        /\ \A i, j \in DOMAIN rglob(filepath) :
               rglob(filepath)[i] = rglob(filepath)[j] => i = j

\* C25 (as claimed): add_record accepts a record with no thumbnail, and
\* get_record_by_image_path then returns it with the thumbnail absent; the
\* orchestrator's record construction and add_record, given no source image,
\* add a row with no thumbnail.
C25_ThumbnailOptional ==
    /\ (last.op = "add_record" /\ last.image = None
            /\ ~has_record(last.before, last.image_path)) =>
           /\ last.raised = ""
           /\ store = Append(last.before, ObituaryRecord(last.image_path, <<"text">>))
           /\ get_record_by_image_path(store, last.image_path).image = None
    /\ last.op = "persist" =>
           /\ last.raised = ""
           /\ Len(store) = Len(last.before) + 1
           /\ store[Len(store)].image_path = last.image_path
           /\ store[Len(store)].image = None

\* The positions of the calls of f among the calls of the iteration.
CallsOf(f) == {i \in DOMAIN iterated.calls : iterated.calls[i].call = f}

\* The stages the text given to the i-th call has been through.
StagesBefore(i) == {iterated.calls[i].on[k] : k \in DOMAIN iterated.calls[i].on}

\* Preprocessing, the temporary write, OCR and cleaning run at most once and
\* in that order; spell correction runs only with spellcheck, at most once,
\* once when the text stages are all reached, and on cleaned text; add_record
\* is the last call.
StagesInOrder ==
    LET order == <<"preprocess_image", "cv2.imwrite", "image_to_string",
                   "clean_irregular_text">>
    IN /\ \A k \in DOMAIN order : Cardinality(CallsOf(order[k])) <= 1
       /\ \A k \in 2..Len(order) :
              \A j \in CallsOf(order[k]) : \E i \in CallsOf(order[k - 1]) : i < j
       /\ CallsOf("autocorrect_text") # {} => iteration.spellcheck
       /\ Cardinality(CallsOf("autocorrect_text")) <= 1
       /\ (iteration.spellcheck /\ iterated.outcome \in {"persisted", "persist_failed"})
              => Cardinality(CallsOf("autocorrect_text")) = 1
       /\ \A j \in CallsOf("autocorrect_text") :
              /\ "clean" \in StagesBefore(j)
              /\ \E i \in CallsOf("clean_irregular_text") : i < j
       /\ \A j \in CallsOf("add_record") : j = Len(iterated.calls)

\* C26 (as claimed): for an image with no record, the stages run at most once
\* and in order, and spell correction is always given text that has been
\* cleaned and whitespace/quote-normalized.
C26_StageOrderAlwaysNormalized ==
    (iterated.called /\ ~iteration.existing) =>
        /\ StagesInOrder
        /\ \A j \in CallsOf("autocorrect_text") : "normalize" \in StagesBefore(j)

\* C26 (amended): for an image with no record, the stages run at most once and
\* in order, and spell correction is given text that has been cleaned and,
\* unless the run was called with normalize false, whitespace/quote-normalized;
\* with normalize false normalize_whitespace is not called at all.
C26_StageOrder ==
    (iterated.called /\ ~iteration.existing) =>
        /\ StagesInOrder
        /\ \A j \in CallsOf("autocorrect_text") :
               iteration.normalize => "normalize" \in StagesBefore(j)
        /\ ~iteration.normalize => CallsOf("normalize_whitespace") = {}

\* C26 witness: with spellcheck and normalize, the iteration reached the record
\* construction, having given autocorrect_text the cleaned and normalized text.
C26_Witness ==
    /\ iterated.called
    /\ iteration.spellcheck
    /\ iteration.normalize
    /\ iterated.outcome = "persist_failed"
    /\ \E j \in CallsOf("autocorrect_text") :
           iterated.calls[j].on = <<"ocr", "clean", "normalize">>

\* C27: in every interleaving of the threads that call SpellCheckerSingleton(),
\* at most one instance is ever made, the instance stored in _instances is
\* never replaced or changed (a later call with another custom word file
\* leaves its word file and its dictionary as they are), and every caller
\* that returns is handed that one instance, the only one made.
C27_SingletonUnderConcurrency ==
    [][/\ constructed' <= 1
       /\ instances # NoInstance => instances' = instances
       /\ \A t \in Threads :
              thread'[t].returned # NoInstance =>
                  /\ thread'[t].returned = instances'
                  /\ thread'[t].returned.id = 1
                  /\ constructed' = 1]_vars

\* C27: both threads were handed the same instance, after the second called
\* with a custom word file that is not the one the instance was made with.
C27_Witness ==
    /\ thread[1].returned # NoInstance
    /\ thread[2].returned = thread[1].returned
    /\ thread[2].custom_word_file # ""
    /\ thread[2].custom_word_file # instances.custom_word_file
    /\ thread[2].pc = "idle"
    /\ thread[2].calls = 2
    /\ constructed = 1

\* The places of record in the list get_all_records returns.
PlacesOf(rows, record) == {i \in DOMAIN get_all_records(rows) : get_all_records(rows)[i] = record}

\* add_record was given a record, raised nothing, and the table had no row of
\* the record's path before.
AddedAfresh ==
    /\ last'.op = "add_record"
    /\ last'.raised = ""
    /\ ~has_record(last'.before, last'.image_path)

\* C28: when add_record(r) succeeds on a table with no row of r.image_path,
\* get_record_by_image_path(r.image_path) then returns a record equal to r in
\* every field and get_all_records has it exactly once; and
\* get_record_by_image_path returns None for a path until a record of that path
\* is added: a path never added gives None.
C28_StoreRoundTrip ==
    [][/\ AddedAfresh =>
              /\ get_record_by_image_path(store', last'.record.image_path) = last'.record
              /\ Cardinality(PlacesOf(store', last'.record)) = 1
       /\ \A stem \in StoreStems :
              /\ get_record_by_image_path(store, File("", jpg(stem))) = None
              /\ ~(last'.op = "add_record" /\ last'.image_path = File("", jpg(stem)))
              => get_record_by_image_path(store', File("", jpg(stem))) = None
       /\ last'.op = "get_record_by_image_path" =>
              last'.record = get_record_by_image_path(store, last'.image_path)]_vars

\* C28: a record with a publication date was added to a table that had another
\* path's row, then read back whole by its path, while a path never added
\* gives None.
C28_Witness ==
    /\ last.op = "get_record_by_image_path"
    /\ last.record # None
    /\ last.record.date_published = Some([year |-> 1991, month |-> 1, day |-> 10])
    /\ last.record.name # None
    /\ Len(store) = 2
    /\ store[2] = last.record
    /\ store[1].image_path # last.image_path
    /\ \E stem \in StoreStems : get_record_by_image_path(store, File("", jpg(stem))) = None

Href == <<"http://obit.glbthistory.org/olo/">> \o download.obituary_link

\* Whether the image of the index has a URL and the server answers with content.
YieldsContent(index) ==
    /\ transform_url_to_image_path(Href, index) # None
    /\ download.responses[index] = "content"

\* The indices download_single_image was called with.
Attempted == {downloaded.attempts[k].index : k \in DOMAIN downloaded.attempts}

\* What the call with index 0 came to, "" when there was none.
OutcomeOfFirst ==
    IF downloaded.attempts = <<>> THEN "" ELSE downloaded.attempts[1].outcome

\* Index 0 is requested before any other; when it succeeds no other index is
\* tried; a ValueError leaves no file, and one for the filename comes before
\* any attempt.
FirstAndFailureRules ==
    /\ \A k \in DOMAIN downloaded.attempts :
           /\ downloaded.attempts[1].index = 0
           /\ downloaded.attempts[k].requested => downloaded.attempts[1].requested
           /\ k > 1 => downloaded.attempts[k].index > downloaded.attempts[k - 1].index
    /\ OutcomeOfFirst = "True" => Len(downloaded.attempts) = 1
    /\ downloaded.raised = "ValueError" =>
           /\ downloaded.written = {}
           /\ extract_filename_from_url(Href) = None => downloaded.attempts = <<>>

====
